---- MODULE Spec2Model ----
(***************************************************************************)
(* A model of the local RAG + multi-agent code generator:                  *)
(*   - the three prompted agents and their response parsers                *)
(*     (app/agents/product_manager.py, developer.py, tester.py, base.py),  *)
(*   - the sandboxed workspace writer (app/utils/workspace.py),            *)
(*   - document ingestion into the vector index (app/core/rag.py).         *)
(*                                                                         *)
(* Text is modelled as a sequence of lexemes (a brace, a fence, a newline, *)
(* a word, ...), so that the regular expressions and json.loads of the     *)
(* source are computed, not assumed.  Python values are tagged records.    *)
(***************************************************************************)
EXTENDS Integers, Sequences, FiniteSets, TLC

VARIABLES
    \* ---- pipeline (one generate_code run)
    pc,            \* START, PM_RUN, DEV_RUN, TEST_RUN, DONE, FAILED
    instruction,   \* the user's instruction (lexemes)
    context,       \* the AgentContext threaded through the stages (a dict)
    results,       \* the AgentResults produced so far, in order
    calls,         \* the inference-backend calls made so far: [agent, ok]
    parseLog,      \* per _parse_response call: [agent, raised, steps, response]
    error,         \* "none", or the exception that reached the caller
    runOutputs,    \* what get_files_for_workspace / get_setup_commands returned
    guess,         \* one _guess_filename call: its arguments and its result
    \* ---- workspace writer
    platform,      \* "posix" or "windows": how pathlib splits a path
    fs,            \* the file system: absolute path -> [kind, content]
    wsBatch,       \* the argument of the last write_files_to_workspace call
    wsLog,         \* per entry of that call: its outcome and target
    wsReturned,    \* the list that call returned
    wsRaised,      \* whether that call raised
    wsCalls,       \* number of write_files_to_workspace calls made
    \* ---- retrieval service
    disk,          \* the directory to ingest, in directory-walk order
    collection,    \* the vector index: sequence of stored records, keyed by id
    embedCalls,    \* texts handed to generate_embedding by the last ingest
    addCalls,      \* batches handed to collection.add, all calls
    ingestResult,  \* what the last ingest_documents call returned or raised
    ingestCalls,   \* number of ingest_documents calls made
    ingestTrace,   \* the last ingest: whether its path existed, files extracted
    searchTrace    \* the last search_documents call: k, store answer, result

pipeVars == <<pc, instruction, context, results, calls, parseLog, error, runOutputs, guess>>
wsVars   == <<platform, fs, wsBatch, wsLog, wsReturned, wsRaised, wsCalls>>
ragVars  == <<disk, collection, embedCalls, addCalls, ingestResult, ingestCalls,
             ingestTrace, searchTrace>>
vars     == <<pipeVars, wsVars, ragVars>>

(***************************************************************************)
(* Generic helpers                                                         *)
(***************************************************************************)
Min(S) == CHOOSE x \in S : \A y \in S : x <= y
Max(S) == CHOOSE x \in S : \A y \in S : x >= y
MinOf(a, b) == IF a <= b THEN a ELSE b

\* s[:n] of Python, on a sequence
Prefix(s, n) == SubSeq(s, 1, MinOf(Len(s), n))

\* the concatenation of a sequence of sequences
RECURSIVE Concat(_)
Concat(ss) == IF ss = <<>> THEN <<>> ELSE Head(ss) \o Concat(Tail(ss))

SeqRange(s) == {s[i] : i \in 1..Len(s)}

(***************************************************************************)
(* Python values: None, int, str (a sequence of lexemes), list, dict (an   *)
(* insertion-ordered sequence of key/value pairs with distinct keys).      *)
(***************************************************************************)
Null    == [k |-> "null"]
Num(n)  == [k |-> "num", v |-> n]
Str(s)  == [k |-> "str", v |-> s]
List(l) == [k |-> "list", v |-> l]
Dict(m) == [k |-> "dict", v |-> m]
KV(key, val) == [key |-> <<key>>, val |-> val]

IsStr(x)  == x.k = "str"
IsList(x) == x.k = "list"
IsDict(x) == x.k = "dict"

dict_has(d, key) == \E i \in 1..Len(d.v) : d.v[i].key = <<key>>
\* d[key] / d.get(key, default) of a dict d
dict_at(d, key) == d.v[CHOOSE i \in 1..Len(d.v) : d.v[i].key = <<key>>].val
dict_get(d, key, default) == IF dict_has(d, key) THEN dict_at(d, key) ELSE default
\* d[key] = val on the pair sequence m (json.loads keeps the last of two equal keys)
DictSet(m, key, val) ==
    IF \E i \in 1..Len(m) : m[i].key = key
    THEN [i \in 1..Len(m) |-> IF m[i].key = key THEN [key |-> key, val |-> val] ELSE m[i]]
    ELSE Append(m, [key |-> key, val |-> val])

\* str(int) for the small indexes the parsers format into file names
IntStr(n) ==
    CASE n = 0 -> "0" [] n = 1 -> "1" [] n = 2 -> "2" [] n = 3 -> "3"
      [] n = 4 -> "4" [] n = 5 -> "5" [] n = 6 -> "6" [] OTHER -> "7"

(***************************************************************************)
(* Lexemes                                                                 *)
(***************************************************************************)
Q     == "\""
NL    == "\n"
FENCE == "<fence>"   \* the triple-backtick marker
IsWs(t) == t \in {" ", NL}
\* lexemes matched entirely by the regular expression \w+
WordLexemes == {"python", "bash", "js", "zig", "null", "5", "hello", "oops",
                "files", "path", "content", "main", "x", "specifications",
                "test", "assert", "print", "fastapi", "shell", "sh",
                "javascript", "csharp"}
IsWord(t) == t \in WordLexemes

\* str.strip(): leading and trailing whitespace removed
RECURSIVE lstrip(_)
lstrip(s) == IF s # <<>> /\ IsWs(Head(s)) THEN lstrip(Tail(s)) ELSE s
RECURSIVE rstrip(_)
rstrip(s) == IF s # <<>> /\ IsWs(s[Len(s)]) THEN rstrip(SubSeq(s, 1, Len(s) - 1)) ELSE s
strip(s) == rstrip(lstrip(s))

(***************************************************************************)
(* json.loads, on lexemes.  The grammar is JSON's: null, a number, a       *)
(* string literal between quotes (no raw newline inside, the escape \n     *)
(* decoded), a list in brackets, an object in braces; whitespace between   *)
(* lexemes is skipped and nothing may follow the value.                    *)
(***************************************************************************)
NumLexemes == {"5"}
NumVal(t) == 5
ParseFail == [ok |-> FALSE]
ParseOk(v, n) == [ok |-> TRUE, val |-> v, next |-> n]

RECURSIVE SkipWs(_, _)
SkipWs(s, i) == IF i <= Len(s) /\ IsWs(s[i]) THEN SkipWs(s, i + 1) ELSE i

\* the escape sequence \n of a JSON string stands for a newline
Unescape(t) == IF t = "\\n" THEN NL ELSE t

ParseString(s, i) ==
    IF i > Len(s) \/ s[i] # Q THEN ParseFail
    ELSE LET closes == {j \in (i + 1)..Len(s) : s[j] = Q}
         IN  IF closes = {} THEN ParseFail
             ELSE LET j == Min(closes)
                      body == SubSeq(s, i + 1, j - 1)
                  IN  IF \E n \in 1..Len(body) : body[n] = NL
                      THEN ParseFail
                      ELSE ParseOk(Str([n \in 1..Len(body) |-> Unescape(body[n])]), j + 1)

RECURSIVE ParseValue(_, _)
RECURSIVE ParseItems(_, _, _)
RECURSIVE ParseMembers(_, _, _)
ParseValue(s, i0) ==
    LET i == SkipWs(s, i0)
    IN  IF i > Len(s) THEN ParseFail
        ELSE IF s[i] = "null" THEN ParseOk(Null, i + 1)
        ELSE IF s[i] \in NumLexemes THEN ParseOk(Num(NumVal(s[i])), i + 1)
        ELSE IF s[i] = Q THEN ParseString(s, i)
        ELSE IF s[i] = "["
             THEN LET j == SkipWs(s, i + 1)
                  IN  IF j <= Len(s) /\ s[j] = "]"
                      THEN ParseOk(List(<<>>), j + 1)
                      ELSE ParseItems(s, j, <<>>)
        ELSE IF s[i] = "{"
             THEN LET j == SkipWs(s, i + 1)
                  IN  IF j <= Len(s) /\ s[j] = "}"
                      THEN ParseOk(Dict(<<>>), j + 1)
                      ELSE ParseMembers(s, j, <<>>)
        ELSE ParseFail
ParseItems(s, i, acc) ==
    LET r == ParseValue(s, i)
    IN  IF ~r.ok THEN ParseFail
        ELSE LET j == SkipWs(s, r.next)
             IN  IF j > Len(s) THEN ParseFail
                 ELSE IF s[j] = "]" THEN ParseOk(List(Append(acc, r.val)), j + 1)
                 ELSE IF s[j] = "," THEN ParseItems(s, j + 1, Append(acc, r.val))
                 ELSE ParseFail
ParseMembers(s, i, acc) ==
    LET key == ParseString(s, SkipWs(s, i))
    IN  IF ~key.ok THEN ParseFail
        ELSE LET c == SkipWs(s, key.next)
             IN  IF c > Len(s) \/ s[c] # ":" THEN ParseFail
                 ELSE LET r == ParseValue(s, c + 1)
                      IN  IF ~r.ok THEN ParseFail
                          ELSE LET j == SkipWs(s, r.next)
                                   new == DictSet(acc, key.val.v, r.val)
                               IN  IF j > Len(s) THEN ParseFail
                                   ELSE IF s[j] = "}" THEN ParseOk(Dict(new), j + 1)
                                   ELSE IF s[j] = "," THEN ParseMembers(s, j + 1, new)
                                   ELSE ParseFail

\* json.loads(s): the value, or JSONDecodeError raised
json_loads(s) ==
    LET r == ParseValue(s, 1)
    IN  IF r.ok /\ SkipWs(s, r.next) > Len(s)
        THEN [raised |-> FALSE, val |-> r.val]
        ELSE [raised |-> TRUE, exc |-> "JSONDecodeError"]

(***************************************************************************)
(* The two regular expressions of the parsers                              *)
(***************************************************************************)
NoMatch == [matched |-> FALSE]

\* a variant whose match is lazy: from the first "{" to the first "}" after it
re_search_braces_lazy(s) ==
    LET opens == {i \in 1..Len(s) : s[i] = "{"}
    IN  IF opens = {} THEN NoMatch
        ELSE LET i == Min(opens)
                 closes == {j \in (i + 1)..Len(s) : s[j] = "}"}
             IN  IF closes = {} THEN NoMatch
                 ELSE [matched |-> TRUE, group |-> SubSeq(s, i, Min(closes))]

\* re.search(r'\{.*\}', response, re.DOTALL): greedy, from the first "{" to the
\* last "}" after it
re_search_braces(s) ==
    LET opens == {i \in 1..Len(s) : s[i] = "{"}
    IN  IF opens = {} THEN NoMatch
        ELSE LET i == Min(opens)
                 closes == {j \in (i + 1)..Len(s) : s[j] = "}"}
             IN  IF closes = {} THEN NoMatch
                 ELSE [matched |-> TRUE, group |-> SubSeq(s, i, Max(closes))]

\* One match of ```(\w+)?\n(.*?)\n``` starting at lexeme p, or NoMatch: the
\* fence, an optional word directly followed by a newline, the shortest body
\* that a newline and a fence follow.
FenceMatchAt(s, p) ==
    IF p > Len(s) \/ s[p] # FENCE THEN NoMatch
    ELSE LET withLang == p + 2 <= Len(s) /\ IsWord(s[p + 1]) /\ s[p + 2] = NL
             noLang   == p + 1 <= Len(s) /\ s[p + 1] = NL
             start    == IF withLang THEN p + 3 ELSE p + 2
             ends     == {q \in start..(Len(s) - 1) : s[q] = NL /\ s[q + 1] = FENCE}
         IN  IF ~(withLang \/ noLang) \/ ends = {} THEN NoMatch
             ELSE [matched |-> TRUE,
                   lang    |-> IF withLang THEN <<s[p + 1]>> ELSE <<>>,
                   code    |-> SubSeq(s, start, Min(ends) - 1),
                   next    |-> Min(ends) + 2]

RECURSIVE FindFences(_, _)
FindFences(s, p) ==
    IF p > Len(s) THEN <<>>
    ELSE LET m == FenceMatchAt(s, p)
         IN  IF m.matched
             THEN <<[lang |-> m.lang, code |-> m.code]>> \o FindFences(s, m.next)
             ELSE FindFences(s, p + 1)

\* re.findall(r'```(\w+)?\n(.*?)\n```', response, re.DOTALL): the (lang, code)
\* pairs of the non-overlapping matches, left to right; lang is '' when absent
re_findall_fences(s) == FindFences(s, 1)

(***************************************************************************)
(* Python string operations on lexeme sequences.  A marker ('test',        *)
(* 'import ', ...) is found inside one lexeme; the lexemes of the model    *)
(* are cut so that no marker spans two of them.                            *)
(***************************************************************************)
Lower(t) ==
    CASE t = "TestCase" -> "testcase"
      [] t = "FastAPI"  -> "fastapi"
      [] t = "Assert"   -> "assert"
      [] OTHER          -> t
str_lower(s) == [i \in 1..Len(s) |-> Lower(s[i])]

\* the markers that occur inside lexeme t
Substrings(t) ==
    CASE t = "def main("       -> {"def main("}
      [] t = "if __name__"     -> {"if __name__"}
      [] t = "class "          -> {"class "}
      [] t = "test"            -> {"test"}
      [] t = "test_"           -> {"test"}
      [] t = "testcase"        -> {"test"}
      [] t = "assert"          -> {"assert"}
      [] t = "import unittest" -> {"import unittest", "import ", "test"}
      [] t = "import pytest"   -> {"import pytest", "import ", "test"}
      [] t = "import os"       -> {"import "}
      [] t = "fastapi"         -> {"fastapi"}
      [] t = "app = "          -> {"app = "}
      [] t = "bash"            -> {"sh", "bash"}
      [] t = "shell"           -> {"sh", "shell"}
      [] t = "sh"              -> {"sh"}
      [] t = "csharp"          -> {"sh", "csharp"}
      [] OTHER                 -> {t}
\* marker in s
str_contains(s, marker) == \E i \in 1..Len(s) : marker \in Substrings(s[i])
\* s.endswith('.py'), s.replace('.py', ''), s.replace('/', '.')
endswith_py(s) == s # <<>> /\ s[Len(s)] = ".py"
remove_py(s) == SelectSeq(s, LAMBDA t : t # ".py")
slash_to_dot(s) == [i \in 1..Len(s) |-> IF s[i] = "/" THEN "." ELSE s[i]]

\* x[:n] is defined on a list and on a str; iterating a str yields its characters
Sliceable(x) == x.k \in {"list", "str"}
Elems(x, n) ==
    IF IsList(x) THEN Prefix(x.v, n)
    ELSE [i \in 1..MinOf(Len(x.v), n) |-> Str(<<x.v[i]>>)]
\* x[key] is defined on a dict that has the key
CanIndex(x, key) == IsDict(x) /\ dict_has(x, key)

Raise(e)  == [raised |-> TRUE, exc |-> e]
Return(v) == [raised |-> FALSE, val |-> v]

(***************************************************************************)
(* ProductManagerAgent (app/agents/product_manager.py)                     *)
(***************************************************************************)
DescriptionPrefixLen == 200
MaxPromptPassages == 3
PMPassageChars == 500

PM_build_prompt(ctx) ==
    LET instr == dict_get(ctx, "instruction", Str(<<>>))
        rag   == Prefix(dict_get(ctx, "rag_context", List(<<>>)).v, MaxPromptPassages)
    IN  Return(<<"User Instruction: ">> \o instr.v \o <<NL>>
               \o (IF rag # <<>> THEN <<"Relevant Context from Knowledge Base:">> ELSE <<>>)
               \o Concat([i \in 1..Len(rag) |->
                       <<"Context ", IntStr(i), ":", NL>>
                       \o Prefix(dict_at(rag[i], "content").v, PMPassageChars) \o <<"...">>])
               \o <<"Please analyze the user instruction">>)

PM_fallback_specs(response) ==
    Dict(<<KV("analysis", Str(<<"Requirements analysis completed">>)),
           KV("specifications", List(<<
               Dict(<<KV("component", Str(<<"Main Component">>)),
                      KV("description", Str(Prefix(response, DescriptionPrefixLen) \o <<"...">>)),
                      KV("requirements", List(<<Str(<<"Implement core functionality">>)>>)),
                      KV("acceptance_criteria", List(<<Str(<<"Component works as expected">>)>>))>>)>>)),
           KV("technical_considerations", List(<<Str(<<"Follow best practices">>)>>)),
           KV("success_metrics", List(<<Str(<<"Functionality implemented successfully">>)>>))>>)

PM_emergency_specs(ctx) ==
    Dict(<<KV("analysis", Str(<<"Analysis completed with basic specifications">>)),
           KV("specifications", List(<<
               Dict(<<KV("component", Str(<<"Core Implementation">>)),
                      KV("description", Str(<<"Implement functionality based on: ">>
                              \o dict_get(ctx, "instruction", Str(<<"user requirements">>)).v)),
                      KV("requirements", List(<<Str(<<"Follow coding standards">>),
                                                Str(<<"Implement required functionality">>)>>)),
                      KV("acceptance_criteria", List(<<Str(<<"Code works correctly">>),
                                                       Str(<<"Meets user requirements">>)>>))>>)>>)),
           KV("technical_considerations", List(<<Str(<<"Use appropriate design patterns">>),
                                                 Str(<<"Ensure code maintainability">>)>>)),
           KV("success_metrics", List(<<Str(<<"Functionality delivered">>),
                                        Str(<<"Code quality maintained">>)>>))>>)

\* _parse_response: the value returned (or the exception raised), and the steps
\* of the fallback chain that ran
PM_parse_response(response, ctx) ==
    LET m      == re_search_braces(response)
        loaded == json_loads(m.group)
    IN  IF m.matched /\ loaded.raised
        THEN [raised |-> FALSE, steps |-> {"strict", "terminal"},
              val |-> Dict(<<KV("agent", Str(<<"ProductManager">>)),
                             KV("role", Str(<<"Product Manager">>)),
                             KV("specifications", PM_emergency_specs(ctx)),
                             KV("raw_response", Str(response)),
                             KV("parsing_error", Str(<<loaded.exc>>))>>)]
        ELSE [raised |-> FALSE,
              steps |-> IF m.matched THEN {"strict"} ELSE {"strict", "placeholder"},
              val |-> Dict(<<KV("agent", Str(<<"ProductManager">>)),
                             KV("role", Str(<<"Product Manager">>)),
                             KV("specifications",
                                IF m.matched THEN loaded.val ELSE PM_fallback_specs(response)),
                             KV("raw_response", Str(response))>>)]

(***************************************************************************)
(* DeveloperAgent (app/agents/developer.py)                                *)
(***************************************************************************)
DevPassageChars == 800

\* json.dumps(specifications, indent=2) is defined on every value json.loads
\* or the fallbacks produce; the prompt names the keys it serialises
Dev_build_prompt(ctx) ==
    LET instr == dict_get(ctx, "instruction", Str(<<>>))
        specs == dict_get(ctx, "specifications", Dict(<<>>))
        rag   == Prefix(dict_get(ctx, "rag_context", List(<<>>)).v, MaxPromptPassages)
    IN  Return(<<"Original User Instruction: ">> \o instr.v \o <<NL>>
               \o <<"Product Manager Specifications:">>
               \o Concat([i \in 1..Len(specs.v) |-> specs.v[i].key])
               \o (IF rag # <<>> THEN <<"Relevant Code Examples">> ELSE <<>>)
               \o Concat([i \in 1..Len(rag) |->
                       <<"Context ", IntStr(i), " (">>
                       \o dict_get(dict_get(rag[i], "metadata", Dict(<<>>)), "source", Str(<<"unknown">>)).v
                       \o <<"):", NL>>
                       \o Prefix(dict_at(rag[i], "content").v, DevPassageChars) \o <<"...">>])
               \o <<"Please implement the code">>)

\* {'python': 'py', 'bash': 'sh', 'shell': 'sh', 'javascript': 'js', 'js': 'js'}
\*   .get(lang, 'txt'), with the dot that precedes it in the file name
ExtOf(lang) ==
    CASE lang = <<"python">>     -> ".py"
      [] lang = <<"bash">>       -> ".sh"
      [] lang = <<"shell">>      -> ".sh"
      [] lang = <<"javascript">> -> ".js"
      [] lang = <<"js">>         -> ".js"
      [] OTHER                   -> ".txt"

Dev_guess_filename_import_first(code, lang, index) ==
    LET code_lower == str_lower(code)
    IN  IF str_contains(code_lower, "def main(") \/ str_contains(code_lower, "if __name__")
        THEN <<"main", ".py">>
        ELSE IF str_contains(code_lower, "class ") /\ str_contains(code_lower, "test")
        THEN <<"test_", IntStr(index), ".py">>
        ELSE IF str_contains(code_lower, "fastapi") \/ str_contains(code_lower, "app = ")
        THEN <<"app", ".py">>
        ELSE IF lang = <<"python">> \/ str_contains(code_lower, "import ")
        THEN <<"module_", IntStr(index), ".py">>
        ELSE IF str_contains(code_lower, "import unittest") \/ str_contains(code_lower, "import pytest")
        THEN <<"test_", IntStr(index), ".py">>
        ELSE IF lang = <<"bash">> \/ str_contains(lang, "sh")
        THEN <<"script_", IntStr(index), ".sh">>
        ELSE IF lang = <<"javascript">> \/ lang = <<"js">>
        THEN <<"script_", IntStr(index), ".js">>
        ELSE <<"file_", IntStr(index), ExtOf(lang)>>

Dev_guess_filename(code, lang, index) ==
    LET code_lower == str_lower(code)
    IN  IF str_contains(code_lower, "def main(") \/ str_contains(code_lower, "if __name__")
        THEN <<"main", ".py">>
        ELSE IF str_contains(code_lower, "class ") /\ str_contains(code_lower, "test")
        THEN <<"test_", IntStr(index), ".py">>
        ELSE IF str_contains(code_lower, "fastapi") \/ str_contains(code_lower, "app = ")
        THEN <<"app", ".py">>
        ELSE IF str_contains(code_lower, "import unittest") \/ str_contains(code_lower, "import pytest")
        THEN <<"test_", IntStr(index), ".py">>
        ELSE IF lang = <<"python">> \/ str_contains(code_lower, "import ")
        THEN <<"module_", IntStr(index), ".py">>
        ELSE IF lang = <<"bash">> \/ str_contains(lang, "sh")
        THEN <<"script_", IntStr(index), ".sh">>
        ELSE IF lang = <<"javascript">> \/ lang = <<"js">>
        THEN <<"script_", IntStr(index), ".js">>
        ELSE <<"file_", IntStr(index), ExtOf(lang)>>

\* the (index, lang, code) triples of enumerate(code_blocks)
Enumerate(blocks) ==
    [i \in 1..Len(blocks) |-> [index |-> i - 1, lang |-> blocks[i].lang, code |-> blocks[i].code]]

\* the files built from the fenced blocks of the response
Dev_files_from_blocks(response) ==
    LET kept == SelectSeq(Enumerate(re_findall_fences(response)),
                          LAMBDA b : strip(b.code) # <<>>)
    IN  [n \in 1..Len(kept) |->
            Dict(<<KV("path", Str(Dev_guess_filename(kept[n].code, kept[n].lang, kept[n].index))),
                   KV("content", Str(strip(kept[n].code))),
                   KV("description", Str(<<"Generated code file ", IntStr(kept[n].index + 1)>>))>>)]

EmergencyPrefixLen == 500

Dev_emergency_code(response, ctx) ==
    Dict(<<KV("implementation_plan", Str(<<"Basic implementation created">>)),
           KV("files", List(<<
               Dict(<<KV("path", Str(<<"main", ".py">>)),
                      KV("content", Str(<<"# Implementation for: ">>
                              \o dict_get(ctx, "instruction", Str(<<"user request">>)).v
                              \o <<NL, "# ">> \o Prefix(response, EmergencyPrefixLen) \o <<"...">>)),
                      KV("description", Str(<<"Basic implementation file">>))>>)>>)),
           KV("dependencies", List(<<>>)),
           KV("setup_commands", List(<<>>)),
           KV("notes", Str(<<"Fallback implementation due to parsing error">>))>>)

Dev_parse_response(response, ctx) ==
    LET m      == re_search_braces(response)
        loaded == json_loads(m.group)
    IN  IF m.matched /\ loaded.raised
        THEN [raised |-> FALSE, steps |-> {"strict", "terminal"},
              val |-> Dict(<<KV("agent", Str(<<"Developer">>)),
                             KV("role", Str(<<"Developer">>)),
                             KV("code", Dev_emergency_code(response, ctx)),
                             KV("raw_response", Str(response)),
                             KV("parsing_error", Str(<<loaded.exc>>))>>)]
        ELSE [raised |-> FALSE,
              steps |-> IF m.matched THEN {"strict"} ELSE {"strict", "codeblock"},
              val |-> Dict(<<KV("agent", Str(<<"Developer">>)),
                             KV("role", Str(<<"Developer">>)),
                             KV("code",
                                IF m.matched THEN loaded.val
                                ELSE Dict(<<KV("implementation_plan",
                                               Str(<<"Code implementation based on specifications">>)),
                                            KV("files", List(Dev_files_from_blocks(response))),
                                            KV("dependencies", List(<<>>)),
                                            KV("setup_commands", List(<<>>)),
                                            KV("notes", Str(<<"Generated from code blocks in response">>))>>)),
                             KV("raw_response", Str(response))>>)]

(***************************************************************************)
(* TesterAgent (app/agents/tester.py)                                      *)
(***************************************************************************)
MaxReviewFiles == 5
ReviewContentChars == 1500
MaxBasicTests == 3

\* the part of the prompt written for one file of files[:5]
Tester_prompt_file(file_info) ==
    <<NL, "File: ">> \o (IF IsStr(dict_at(file_info, "path")) THEN dict_at(file_info, "path").v ELSE <<"?">>)
    \o <<NL, "Content:", NL>>
    \o (IF IsStr(dict_at(file_info, "content"))
        THEN Prefix(dict_at(file_info, "content").v, ReviewContentChars) ELSE <<"[...]">>)
    \o <<"...", NL>>

\* _build_prompt reads context['code']['files']: files[:5] needs a list or a
\* str, file_info['path'] and file_info['content'] need a dict holding the key,
\* and content[:1500] needs a list or a str
Tester_build_prompt(ctx) ==
    LET instr == dict_get(ctx, "instruction", Str(<<>>))
        generated_code == dict_get(ctx, "code", Dict(<<>>))
        files == dict_get(generated_code, "files", List(<<>>))
        shown == Elems(files, MaxReviewFiles)
    IN  IF ~IsDict(generated_code) THEN Raise("AttributeError")
        ELSE IF ~Sliceable(files) THEN Raise("TypeError")
        ELSE IF \E i \in 1..Len(shown) : ~IsDict(shown[i]) THEN Raise("TypeError")
        ELSE IF \E i \in 1..Len(shown) :
                    ~dict_has(shown[i], "path") \/ ~dict_has(shown[i], "content")
        THEN Raise("KeyError")
        ELSE IF \E i \in 1..Len(shown) : ~Sliceable(dict_at(shown[i], "content"))
        THEN Raise("TypeError")
        ELSE Return(<<"Original User Instruction: ">> \o instr.v \o <<NL>>
                    \o <<"Generated Code to Review:">>
                    \o Concat([i \in 1..Len(shown) |-> Tester_prompt_file(shown[i])])
                    \o <<"Please review this code thoroughly">>)

\* a variant that keeps every block that is not blank
Tester_files_from_blocks_all(response) ==
    LET kept == SelectSeq(Enumerate(re_findall_fences(response)),
                          LAMBDA b : strip(b.code) # <<>>)
    IN  [n \in 1..Len(kept) |->
            Dict(<<KV("path", Str(<<"test_", IntStr(kept[n].index), ".py">>)),
                   KV("content", Str(strip(kept[n].code))),
                   KV("description", Str(<<"Test file ", IntStr(kept[n].index + 1),
                                           " extracted from response">>))>>)]

\* the test files of the code-block recovery: blocks that are not blank and
\* hold 'test' or 'assert'
Tester_files_from_blocks(response) ==
    LET kept == SelectSeq(Enumerate(re_findall_fences(response)),
                          LAMBDA b : /\ strip(b.code) # <<>>
                                     /\ \/ str_contains(str_lower(b.code), "test")
                                        \/ str_contains(str_lower(b.code), "assert"))
    IN  [n \in 1..Len(kept) |->
            Dict(<<KV("path", Str(<<"test_", IntStr(kept[n].index), ".py">>)),
                   KV("content", Str(strip(kept[n].code))),
                   KV("description", Str(<<"Test file ", IntStr(kept[n].index + 1),
                                           " extracted from response">>))>>)]

\* str.title() on the lexemes of a module name, then the dots removed
Title(t) ==
    CASE t = "main"  -> "Main"
      [] t = "start" -> "Start"
      [] t = "app"   -> "App"
      [] OTHER       -> t
title_nodots(s) == SelectSeq([i \in 1..Len(s) |-> Title(s[i])], LAMBDA t : t # ".")

\* _create_basic_test: the unittest template for one Python file
Tester_create_basic_test(file_path, code_content) ==
    LET module_name == slash_to_dot(remove_py(file_path))
    IN  <<"import unittest", NL, "import ">> \o module_name
        \o <<NL, "class ", "Test">> \o title_nodots(module_name)
        \o <<"(unittest.TestCase):", NL, "Test suite for ">> \o file_path
        \o <<NL, "self.assertTrue(True)", NL, "if __name__", NL>>

\* the emergency fallback reads context['code']['files'] again: files[:3], and
\* of each entry path.endswith (a str method) and, for a .py path, content
Tester_emergency_raises(files) ==
    \/ ~Sliceable(files)
    \/ \E i \in 1..Len(Elems(files, MaxBasicTests)) :
          LET file_info == Elems(files, MaxBasicTests)[i]
          IN  \/ ~CanIndex(file_info, "path")
              \/ ~IsStr(dict_at(file_info, "path"))
              \/ endswith_py(dict_at(file_info, "path").v) /\ ~dict_has(file_info, "content")

Tester_emergency_tests(files) ==
    LET py == SelectSeq(Elems(files, MaxBasicTests),
                        LAMBDA f : endswith_py(dict_at(f, "path").v))
    IN  [n \in 1..Len(py) |->
            Dict(<<KV("path", Str(<<"test_">> \o remove_py(dict_at(py[n], "path").v) \o <<".py">>)),
                   KV("content", Str(Tester_create_basic_test(dict_at(py[n], "path").v,
                                                              dict_at(py[n], "content")))),
                   KV("description", Str(<<"Basic test for ">> \o dict_at(py[n], "path").v))>>)]

\* the review dict the two fallbacks build: t holds the texts that differ
Tester_review(t, test_files) ==
    Dict(<<KV("review_summary", Str(<<t.summary>>)),
           KV("issues_found", List(<<
               Dict(<<KV("severity", Str(<<t.severity>>)), KV("file", Str(<<"general">>)),
                      KV("issue", Str(<<t.issue>>)),
                      KV("suggestion", Str(<<t.suggestion>>))>>)>>)),
           KV("test_files", List(test_files)),
           KV("recommendations", List(<<Str(<<t.rec1>>), Str(<<t.rec2>>)>>)),
           KV("quality_score", Str(<<t.score>>)),
           KV("requirements_coverage", Str(<<t.coverage>>))>>)

BasicReviewTexts ==
    [summary |-> "Code review completed with basic analysis", severity |-> "medium",
     issue |-> "Unable to parse detailed review", suggestion |-> "Manual review recommended",
     rec1 |-> "Add more comprehensive testing", rec2 |-> "Review code manually",
     score |-> "7", coverage |-> "Partial coverage assessed"]
EmergencyReviewTexts ==
    [summary |-> "Basic code review performed", severity |-> "low",
     issue |-> "Automated review only", suggestion |-> "Perform manual code review",
     rec1 |-> "Add comprehensive testing", rec2 |-> "Review for edge cases",
     score |-> "6", coverage |-> "Basic implementation appears functional"]

Tester_parse_response(response, ctx) ==
    LET m      == re_search_braces(response)
        loaded == json_loads(m.group)
        generated_code == dict_get(ctx, "code", Dict(<<>>))
        files  == dict_get(generated_code, "files", List(<<>>))
    IN  IF m.matched /\ loaded.raised
        THEN IF ~IsDict(generated_code) \/ Tester_emergency_raises(files)
             THEN [raised |-> TRUE, steps |-> {"strict", "terminal"}, exc |-> "TypeError"]
             ELSE [raised |-> FALSE, steps |-> {"strict", "terminal"},
                   val |-> Dict(<<KV("agent", Str(<<"Tester">>)),
                                  KV("role", Str(<<"Quality Assurance Tester">>)),
                                  KV("review", Tester_review(EmergencyReviewTexts,
                                                             Tester_emergency_tests(files))),
                                  KV("raw_response", Str(response)),
                                  KV("parsing_error", Str(<<loaded.exc>>))>>)]
        ELSE [raised |-> FALSE,
              steps |-> IF m.matched THEN {"strict"} ELSE {"strict", "codeblock"},
              val |-> Dict(<<KV("agent", Str(<<"Tester">>)),
                             KV("role", Str(<<"Quality Assurance Tester">>)),
                             KV("review",
                                IF m.matched THEN loaded.val
                                ELSE Tester_review(BasicReviewTexts,
                                                   Tester_files_from_blocks(response))),
                             KV("raw_response", Str(response))>>)]

(***************************************************************************)
(* BaseAgent.process (app/agents/base.py): build the prompt, call the      *)
(* inference backend once, parse; any exception is logged and re-raised.   *)
(* backend is what the call does: [ok |-> TRUE, text |-> the response] or  *)
(* [ok |-> FALSE] when generate_response raises.                           *)
(***************************************************************************)
Agents == <<"ProductManager", "Developer", "Tester">>

build_prompt(agent, ctx) ==
    CASE agent = "ProductManager" -> PM_build_prompt(ctx)
      [] agent = "Developer"      -> Dev_build_prompt(ctx)
      [] agent = "Tester"         -> Tester_build_prompt(ctx)

parse_response(agent, response, ctx) ==
    CASE agent = "ProductManager" -> PM_parse_response(response, ctx)
      [] agent = "Developer"      -> Dev_parse_response(response, ctx)
      [] agent = "Tester"         -> Tester_parse_response(response, ctx)

\* the outcome of process() from the outcome of its three steps
process_outcome(prompt, backend, parsed) ==
    IF prompt.raised
    THEN [raised |-> TRUE, exc |-> prompt.exc, called |-> FALSE, parsed |-> FALSE]
    ELSE IF ~backend.ok
    THEN [raised |-> TRUE, exc |-> "BackendError", called |-> TRUE, parsed |-> FALSE]
    ELSE IF parsed.raised
    THEN [raised |-> TRUE, exc |-> parsed.exc, called |-> TRUE, parsed |-> TRUE,
          steps |-> parsed.steps]
    ELSE [raised |-> FALSE, val |-> parsed.val, called |-> TRUE, parsed |-> TRUE,
          steps |-> parsed.steps]

\* BaseAgent.process: _build_prompt, generate_response, _parse_response; the
\* exception of any of them is logged and raised again
process(agent, ctx, backend) ==
    process_outcome(build_prompt(agent, ctx), backend,
                    parse_response(agent, backend.text, ctx))

(***************************************************************************)
(* What the inference backend may answer: any text.  The model draws the   *)
(* response of each call from these texts.                                 *)
(***************************************************************************)
JS(name) == <<Q, name, Q>>
JK(name) == <<Q, name, Q, ":">>
JFile(pathLit, contentLit) ==
    <<"{">> \o JK("path") \o pathLit \o <<",">> \o JK("content") \o contentLit \o <<"}">>

R_empty      == <<>>
R_prose      == <<"hello", " ", "x">>
R_emptyobj   == <<"{", "}">>
R_badjson    == <<"{", "oops", "}">>
R_truncated  == <<"{">> \o JK("files") \o <<"[", "{">> \o JK("path")
R_fence_main == <<"hello", NL, FENCE, "python", NL, "def main(", NL, FENCE, NL>>
R_fence_test == <<FENCE, NL, "x", NL, FENCE, " ", FENCE, "zig", NL, "Assert", " ", "x", NL, FENCE>>
R_fence_blank == <<FENCE, NL, " ", NL, FENCE>>
R_bad_fence  == <<"{", "oops", "}", NL, FENCE, "python", NL, "import unittest", NL, FENCE>>
R_pm_ok      == <<"{">> \o JK("analysis") \o JS("x") \o <<",">>
                \o JK("specifications") \o <<"[", "]", "}">>
R_dev_ok     == <<"hello", " ", "{">> \o JK("files") \o <<"[">>
                \o JFile(<<Q, "main", ".py", Q>>, JS("x")) \o <<",">>
                \o JFile(<<Q, "start", ".sh", Q>>, JS("x")) \o <<"]", ",">>
                \o JK("dependencies") \o <<"[", "]", ",">>
                \o JK("setup_commands") \o <<"[">> \o JS("x") \o <<",">> \o JS("x") \o <<"]", "}">>
R_dev_numpath == <<"{">> \o JK("files") \o <<"[">> \o JFile(<<"5">>, JS("x")) \o <<"]", "}">>
R_dev_nopath == <<"{">> \o JK("files") \o <<"[", "{">> \o JK("content") \o JS("x")
                \o <<"}", "]", "}">>
R_dev_nullfiles == <<"{">> \o JK("files") \o <<"null", "}">>
R_tester_ok  == <<"{">> \o JK("issues_found") \o <<"[", "]", ",">>
                \o JK("test_files") \o <<"[">> \o JFile(<<Q, "test_", "main", ".py", Q>>, JS("assert"))
                \o <<"]", ",">> \o JK("quality_score") \o JS("5") \o <<"}">>

R_json_fence == <<"x", " ", "{">> \o JK("files") \o <<"[", "]", "}", NL,
                  FENCE, "python", NL, "assert", " ", "x", NL, FENCE>>

R_fence_three == <<FENCE, NL, "test", NL, FENCE, NL, FENCE, NL, "x", NL, FENCE, NL,
                   FENCE, "python", NL, "Assert", " ", "x", NL, FENCE>>
R_fence_mains == <<FENCE, "python", NL, "def main(", NL, FENCE, NL,
                   FENCE, "python", NL, "def main(", " ", "x", NL, FENCE>>

Responses == {R_json_fence, R_fence_three, R_fence_mains, R_empty, R_prose, R_emptyobj, R_badjson, R_truncated, R_fence_main,
              R_fence_test, R_fence_blank, R_bad_fence, R_pm_ok, R_dev_ok,
              R_dev_numpath, R_dev_nopath, R_dev_nullfiles, R_tester_ok}
Backends == {[ok |-> TRUE, text |-> r] : r \in Responses} \cup {[ok |-> FALSE, text |-> <<>>]}

Instructions == {<<"add a health endpoint">>}
\* what RetrievalService.search may hand back for the instruction
RagContexts ==
    {<<>>,
     <<Dict(<<KV("content", Str(<<"hello">>)),
              KV("metadata", Dict(<<KV("source", Str(<<"docs", "/", "a", ".txt">>))>>)),
              KV("distance", Num(0))>>)>>}

(***************************************************************************)
(* PipelineCoordinator.generate_code: START -> PM_RUN -> DEV_RUN ->        *)
(* TEST_RUN -> DONE, each stage's payload merged into the context of the   *)
(* next; an exception of a stage ends the run.                             *)
(***************************************************************************)

\* generate_code(instruction): one search, then the context of the first stage
StartRun(instr, searchOk, rag) ==
    /\ pc = "START"
    /\ instruction' = instr
    /\ calls' = Append(calls, [agent |-> "Retrieval", ok |-> searchOk])
    /\ IF searchOk
       THEN /\ pc' = "PM_RUN"
            /\ context' = Dict(<<KV("instruction", Str(instr)), KV("rag_context", List(rag))>>)
            /\ UNCHANGED error
       ELSE /\ pc' = "FAILED"
            /\ error' = "BackendError"
            /\ UNCHANGED context
    /\ UNCHANGED <<results, parseLog, runOutputs, guess>>

context_after_cleared(agent, ctx) ==
    IF agent = "Tester" THEN Dict(DictSet(ctx.v, <<"code">>, Dict(<<>>))) ELSE ctx
\* the context dict after agent.process(context): _build_prompt and
\* _parse_response read it with context.get and assign to none of its keys
context_after(agent, ctx) == ctx

\* what a stage leaves behind: the record of its call, and either its
\* payload merged into the context or the exception that ends the run
StageEffect(agent, next, key, ctxKey, backend, out) ==
    /\ calls' = IF out.called
                THEN Append(calls, [agent |-> agent, ok |-> backend.ok])
                ELSE calls
    /\ parseLog' = IF out.parsed
                   THEN Append(parseLog, [agent |-> agent, raised |-> out.raised,
                                          steps |-> out.steps, response |-> backend.text,
                                          ctx |-> context,
                                          val |-> IF out.raised THEN Null ELSE out.val])
                   ELSE parseLog
    /\ IF out.raised
       THEN /\ pc' = "FAILED"
            /\ error' = out.exc
            /\ context' = context_after(agent, context)
            /\ UNCHANGED results
       ELSE /\ pc' = next
            /\ results' = Append(results, out.val)
            /\ context' = Dict(DictSet(context_after(agent, context).v, <<ctxKey>>,
                                       dict_at(out.val, key)))
            /\ UNCHANGED error

\* one stage: agent.process(context), then the payload under `key` of the
\* result is merged into the context under `ctxKey`
RunStage(agent, stage, next, key, ctxKey, backend) ==
    /\ pc = stage
    /\ StageEffect(agent, next, key, ctxKey, backend, process(agent, context, backend))
    /\ UNCHANGED <<instruction, runOutputs, guess>>

Start == \E instr \in Instructions, ok \in BOOLEAN, rag \in RagContexts :
            /\ (~ok => rag = <<>>)
            /\ StartRun(instr, ok, rag)
            /\ UNCHANGED <<wsVars, ragVars>>
PMRun == \E b \in Backends :
            /\ RunStage("ProductManager", "PM_RUN", "DEV_RUN", "specifications", "specifications", b)
            /\ UNCHANGED <<wsVars, ragVars>>
DevRun == \E b \in Backends :
            /\ RunStage("Developer", "DEV_RUN", "TEST_RUN", "code", "code", b)
            /\ UNCHANGED <<wsVars, ragVars>>
TestRun == \E b \in Backends :
            /\ RunStage("Tester", "TEST_RUN", "DONE", "review", "review", b)
            /\ UNCHANGED <<wsVars, ragVars>>


(***************************************************************************)
(* PipelineCoordinator.get_files_for_workspace and get_setup_commands:     *)
(* what the caller of generate_code extracts from the finished run.  The   *)
(* run is the sequence of the agents' results.                             *)
(***************************************************************************)
\* the payload the stage `agent` left in the run under `key`
RunPayload(run, agent, key) ==
    IF \E i \in 1..Len(run) : dict_at(run[i], "agent") = Str(<<agent>>)
    THEN dict_at(run[CHOOSE i \in 1..Len(run) : dict_at(run[i], "agent") = Str(<<agent>>)], key)
    ELSE Dict(<<>>)
\* payload.get(key, []) of a list-valued key
ListItems(payload, key) ==
    IF IsDict(payload) /\ dict_has(payload, key) /\ IsList(dict_at(payload, key))
    THEN dict_at(payload, key).v
    ELSE <<>>
\* a file entry tagged with the stage it comes from
Tagged(files, stage) ==
    [i \in 1..Len(files) |->
        IF IsDict(files[i])
        THEN Dict(DictSet(files[i].v, <<"source">>, Str(<<stage>>)))
        ELSE files[i]]

get_files_for_workspace_tests_first(run) ==
    Tagged(ListItems(RunPayload(run, "Tester", "review"), "test_files"), "tester")
    \o Tagged(ListItems(RunPayload(run, "Developer", "code"), "files"), "developer")
get_files_for_workspace(run) ==
    Tagged(ListItems(RunPayload(run, "Developer", "code"), "files"), "developer")
    \o Tagged(ListItems(RunPayload(run, "Tester", "review"), "test_files"), "tester")

RECURSIVE Dedup(_)
Dedup(l) ==
    IF l = <<>> THEN <<>>
    ELSE <<Head(l)>> \o Dedup(SelectSeq(Tail(l), LAMBDA x : x # Head(l)))
get_setup_commands_dedup(run) ==
    Dedup(ListItems(RunPayload(run, "Developer", "code"), "setup_commands"))
get_setup_commands(run) ==
    ListItems(RunPayload(run, "Developer", "code"), "setup_commands")


(***************************************************************************)
(* DeveloperAgent._guess_filename on its own: the body, the language tag   *)
(* and the index of one fenced block, and the name the block is given.     *)
(***************************************************************************)
\* what a body is made of: the markers the heuristic looks for, and other text
BodyLexemes == {"def main(", "if __name__", "class ", "test", "import unittest",
                "import pytest", "import os", "FastAPI", "app = ", "x"}
MaxBodyLen == 2
MaxIndex == 1
Bodies == UNION {[1..n -> BodyLexemes] : n \in 1..MaxBodyLen}
\* group 1 of the fence pattern: a word, or '' when the fence has no tag
LangTags == {<<>>} \cup {<<t>> : t \in {"python", "bash", "shell", "sh", "javascript",
                                        "js", "zig", "csharp"}}
GuessFilename ==
    /\ guess.status = "block"
    /\ guess' = [guess EXCEPT !.status = "named",
                              !.name = Dev_guess_filename(guess.code, guess.lang, guess.index)]
    /\ UNCHANGED <<pc, instruction, context, results, calls, parseLog, error, runOutputs>>
Guess == GuessFilename /\ UNCHANGED <<wsVars, ragVars>>
NextGuess == Guess

(***************************************************************************)
(* Paths (pathlib).  A path string is a sequence of lexemes, the           *)
(* separators "/" and "\" among them; a component is the lexemes between   *)
(* two separators.  POSIX splits on "/" only, Windows on both.  There are  *)
(* no symbolic links in the model, so resolve() is the lexical resolution  *)
(* of "..".                                                                *)
(***************************************************************************)
Platforms == {"posix", "windows"}
Seps(plat) == IF plat = "windows" THEN {"/", "\\"} ELSE {"/"}
SepOf(plat) == IF plat = "windows" THEN "\\" ELSE "/"

RECURSIVE SplitPath(_, _, _, _)
SplitPath(plat, p, i, cur) ==
    IF i > Len(p) THEN (IF cur = <<>> THEN <<>> ELSE <<cur>>)
    ELSE IF p[i] \in Seps(plat)
         THEN (IF cur = <<>> THEN <<>> ELSE <<cur>>) \o SplitPath(plat, p, i + 1, <<>>)
         ELSE SplitPath(plat, p, i + 1, Append(cur, p[i]))
\* the components of a path; empty components and "." are dropped
path_parts(plat, p) == SelectSeq(SplitPath(plat, p, 1, <<>>), LAMBDA c : c # <<".">>)
is_absolute(plat, p) == p # <<>> /\ p[1] \in Seps(plat)

Parent(dir) == IF dir = <<>> THEN <<>> ELSE SubSeq(dir, 1, Len(dir) - 1)
RECURSIVE Resolve(_, _)
\* the absolute path reached from directory base by the components parts
Resolve(base, parts) ==
    IF parts = <<>> THEN base
    ELSE IF Head(parts) = <<"..">> THEN Resolve(Parent(base), Tail(parts))
    ELSE Resolve(Append(base, Head(parts)), Tail(parts))

\* the process's working directory and settings.workspace_dir
Cwd == <<<<"srv">>>>
WorkspaceDir == <<"workspace">>
\* Path(settings.workspace_dir).resolve()
WorkspaceRoot(plat) == Resolve(Cwd, path_parts(plat, WorkspaceDir))
\* workspace_path / path: an absolute path replaces the left operand
JoinBase(plat, p) == IF is_absolute(plat, p) THEN <<>> ELSE WorkspaceRoot(plat)
\* full.relative_to(root) does not raise
IsWithin(full, root) == Len(full) >= Len(root) /\ SubSeq(full, 1, Len(root)) = root

\* a variant that forgets resolve(): the joined path is compared lexically
is_safe_path_unresolved(plat, path) ==
    IsStr(path) /\ ~is_absolute(plat, path.v)

\* is_safe_path(path); a path that is no str makes the join raise, which the
\* outer handler turns into False
is_safe_path(plat, path) ==
    IF ~IsStr(path) THEN FALSE
    ELSE IsWithin(Resolve(JoinBase(plat, path.v), path_parts(plat, path.v)), WorkspaceRoot(plat))

(***************************************************************************)
(* The file system: absolute path -> a directory or a file with content.   *)
(***************************************************************************)
DirNode == [kind |-> "dir"]
FileNode(c) == [kind |-> "file", content |-> c]
FsPut(f, p, node) == [q \in DOMAIN f \cup {p} |-> IF q = p THEN node ELSE f[q]]
IsDirIn(f, p) == p \in DOMAIN f /\ f[p].kind = "dir"

\* full_path.parent.mkdir(parents=True, exist_ok=True), walking the components
\* from directory cur: every named directory is created when missing, and the
\* walk fails on a component that exists as a file
RECURSIVE MkdirWalk(_, _, _)
MkdirWalk(f, cur, parts) ==
    IF parts = <<>> THEN [ok |-> TRUE, fs |-> f, cur |-> cur]
    ELSE IF Head(parts) = <<"..">> THEN MkdirWalk(f, Parent(cur), Tail(parts))
    ELSE LET nxt == Append(cur, Head(parts))
         IN  IF nxt \in DOMAIN f
             THEN IF f[nxt].kind = "dir" THEN MkdirWalk(f, nxt, Tail(parts))
                  ELSE [ok |-> FALSE, fs |-> f, cur |-> cur]
             ELSE MkdirWalk(FsPut(f, nxt, DirNode), nxt, Tail(parts))

\* bytes of a lexeme in UTF-8; text mode writes a newline as CR LF on Windows
ByteLen(plat, t) ==
    CASE t = "e-acute" -> 2
      [] t = NL        -> IF plat = "windows" THEN 2 ELSE 1
      [] t = "secret"  -> 6
      [] OTHER         -> 1
RECURSIVE ByteSize(_, _)
\* os.path.getsize of a file holding text s
ByteSize(plat, s) == IF s = <<>> THEN 0 ELSE ByteLen(plat, Head(s)) + ByteSize(plat, Tail(s))

\* str(Path(settings.workspace_dir) / Path(file_path)): the components joined
\* by the platform's separator, ".." kept
RECURSIVE JoinParts(_, _)
JoinParts(plat, parts) ==
    IF parts = <<>> THEN <<>>
    ELSE IF Len(parts) = 1 THEN Head(parts)
    ELSE Head(parts) \o <<SepOf(plat)>> \o JoinParts(plat, Tail(parts))
full_path_str(plat, p) ==
    IF is_absolute(plat, p) THEN <<SepOf(plat)>> \o JoinParts(plat, path_parts(plat, p))
    ELSE JoinParts(plat, <<WorkspaceDir>> \o path_parts(plat, p))

(***************************************************************************)
(* write_files_to_workspace (app/utils/workspace.py)                       *)
(***************************************************************************)
\* a variant that opens the file for appending
OldContent(f, p) == IF p \in DOMAIN f /\ f[p].kind = "file" THEN f[p].content ELSE <<>>
write_one_append(plat, f, file_info) ==
    IF ~dict_has(file_info, "path") \/ ~dict_has(file_info, "content")
    THEN [fs |-> f, outcome |-> "malformed", target |-> <<>>]
    ELSE LET file_path == dict_at(file_info, "path")
             content   == dict_at(file_info, "content")
         IN  IF ~is_safe_path(plat, file_path)
             THEN [fs |-> f, outcome |-> "unsafe", target |-> <<>>]
             ELSE LET parts  == path_parts(plat, file_path.v)
                      made   == MkdirWalk(f, JoinBase(plat, file_path.v),
                                          SubSeq(parts, 1, Len(parts) - 1))
                      target == Resolve(made.cur, <<parts[Len(parts)]>>)
                  IN  IF parts = <<>> \/ ~made.ok \/ IsDirIn(made.fs, target)
                      THEN [fs |-> IF parts = <<>> THEN f ELSE made.fs,
                            outcome |-> "failed", target |-> <<>>]
                      ELSE IF ~IsStr(content)
                      THEN [fs |-> FsPut(made.fs, target, FileNode(<<>>)),
                            outcome |-> "failed", target |-> target]
                      ELSE [fs |-> FsPut(made.fs, target,
                                         FileNode(OldContent(made.fs, target) \o content.v)),
                            outcome |-> "written", target |-> target,
                            entry |-> Dict(<<
                                KV("path", Str(full_path_str(plat, file_path.v))),
                                KV("bytes", Num(ByteSize(plat, OldContent(made.fs, target) \o content.v))),
                                KV("source", dict_get(file_info, "source", Str(<<"unknown">>))),
                                KV("description", dict_get(file_info, "description", Str(<<>>)))>>)]

\* the body of the loop for one file_info (a dict) on file system f:
\* the new file system, what happened, and the entry appended on success
write_one(plat, f, file_info) ==
    IF ~dict_has(file_info, "path") \/ ~dict_has(file_info, "content")
    THEN [fs |-> f, outcome |-> "malformed", target |-> <<>>]
    ELSE LET file_path == dict_at(file_info, "path")
             content   == dict_at(file_info, "content")
         IN  IF ~is_safe_path(plat, file_path)
             THEN [fs |-> f, outcome |-> "unsafe", target |-> <<>>]
             ELSE LET parts  == path_parts(plat, file_path.v)
                      made   == MkdirWalk(f, JoinBase(plat, file_path.v),
                                          SubSeq(parts, 1, Len(parts) - 1))
                      target == Resolve(made.cur, <<parts[Len(parts)]>>)
                  IN  IF parts = <<>> \/ ~made.ok \/ IsDirIn(made.fs, target)
                      THEN [fs |-> IF parts = <<>> THEN f ELSE made.fs,
                            outcome |-> "failed", target |-> <<>>]
                      ELSE IF ~IsStr(content)
                      THEN [fs |-> FsPut(made.fs, target, FileNode(<<>>)),
                            outcome |-> "failed", target |-> target]
                      ELSE [fs |-> FsPut(made.fs, target, FileNode(content.v)),
                            outcome |-> "written", target |-> target,
                            entry |-> Dict(<<
                                KV("path", Str(full_path_str(plat, file_path.v))),
                                KV("bytes", Num(ByteSize(plat, content.v))),
                                KV("source", dict_get(file_info, "source", Str(<<"unknown">>))),
                                KV("description", dict_get(file_info, "description", Str(<<>>)))>>)]

\* a variant whose loop lets the first exception or unsafe path end the call
RECURSIVE write_loop_abort(_, _, _, _, _)
write_loop_abort(plat, f, files, written, log) ==
    IF files = <<>> THEN [fs |-> f, written |-> written, log |-> log, raised |-> FALSE]
    ELSE LET r == write_one(plat, f, Head(files))
             entryLog == [outcome |-> r.outcome, target |-> r.target]
         IN  IF r.outcome # "written"
             THEN [fs |-> r.fs, written |-> written, log |-> Append(log, entryLog),
                   raised |-> TRUE]
             ELSE write_loop_abort(plat, r.fs, Tail(files),
                                   Append(written, r.entry), Append(log, entryLog))

\* for file_info in files: try ... except Exception: log and go on
RECURSIVE write_loop(_, _, _, _, _)
write_loop(plat, f, files, written, log) ==
    IF files = <<>> THEN [fs |-> f, written |-> written, log |-> log, raised |-> FALSE]
    ELSE LET r == write_one(plat, f, Head(files))
         IN  write_loop(plat, r.fs, Tail(files),
                        IF r.outcome = "written" THEN Append(written, r.entry) ELSE written,
                        Append(log, [outcome |-> r.outcome, target |-> r.target]))

write_files_to_workspace(plat, f, files) == write_loop(plat, f, files, <<>>, <<>>)

\* the file system before any write: the empty workspace, and a file outside it
InitialFs ==
    LET dirs == {<<>>, <<<<"srv">>>>, <<<<"srv">>, <<"workspace">>>>, <<<<"etc">>>>}
        secret == <<<<"etc">>, <<"passwd">>>>
    IN  [p \in dirs \cup {secret} |-> IF p = secret THEN FileNode(<<"secret">>) ELSE DirNode]

FileInfo(path, content) == Dict(<<KV("path", path), KV("content", content)>>)
P_plain     == <<"test.py">>
P_nested    == <<"a", "/", "b.py">>
P_dir       == <<"a">>
P_inside    == <<"a", "/", "..", "/", "c.py">>
P_traversal == <<"..", "/", "..", "/", "etc", "/", "passwd">>
P_backslash == <<"..", "\\", "..", "\\", "etc", "\\", "passwd">>
P_absolute  == <<"/", "etc", "/", "passwd">>
\* the file_info dicts a batch is drawn from
WsEntries ==
    {FileInfo(Str(P_plain), Str(<<"x", NL>>)),
     FileInfo(Str(P_nested), Str(<<"e-acute">>)),
     FileInfo(Str(P_dir), Str(<<"x">>)),
     FileInfo(Str(P_inside), Str(<<"x">>)),
     FileInfo(Str(P_traversal), Str(<<"x">>)),
     FileInfo(Str(P_backslash), Str(<<"x">>)),
     FileInfo(Str(P_absolute), Str(<<"x">>)),
     FileInfo(Str(P_plain), Null),
     FileInfo(Num(5), Str(<<"x">>)),
     Dict(<<KV("content", Str(<<"x">>))>>),
     Dict(<<KV("path", Str(P_plain))>>)}

MaxBatch == 2
Batches == UNION {[1..n -> WsEntries] : n \in 0..MaxBatch}


\* the call write_files_to_workspace(files) on the initial file system
WriteFiles(files) ==
    /\ wsCalls = 0
    /\ LET r == write_files_to_workspace(platform, fs, files)
       IN  /\ fs' = r.fs
           /\ wsLog' = r.log
           /\ wsReturned' = r.written
           /\ wsRaised' = r.raised
    /\ wsBatch' = files
    /\ wsCalls' = wsCalls + 1
    /\ UNCHANGED platform

Write == \E files \in Batches : WriteFiles(files) /\ UNCHANGED <<pipeVars, ragVars>>

\* the same call once more: write_files_to_workspace(files) with the list of
\* the first call, on the file system the first call left
WriteFilesAgain ==
    /\ wsCalls = 1
    /\ LET r == write_files_to_workspace(platform, fs, wsBatch)
       IN  /\ fs' = r.fs
           /\ wsLog' = r.log
           /\ wsReturned' = r.written
           /\ wsRaised' = r.raised
    /\ wsCalls' = wsCalls + 1
    /\ UNCHANGED <<platform, wsBatch>>

Rewrite == WriteFilesAgain /\ UNCHANGED <<pipeVars, ragVars>>

NextWs == Write \/ Rewrite

(***************************************************************************)
(* The generate_code endpoint (app/server.py) after the run has finished:  *)
(* the files and commands are extracted, then the files are written when   *)
(* the request asks to apply them, and only listed otherwise.              *)
(***************************************************************************)
\* f"{value}" of a path
FormatValue(x) ==
    CASE x.k = "str" -> x.v
      [] x.k = "num" -> <<IntStr(x.v)>>
      [] OTHER       -> <<"None">>
\* len(content.encode('utf-8'))
Utf8Len(content) == ByteSize("posix", content)
\* file_info["path"] and file_info["content"].encode of the listing do not raise
CanPreview(file_info) ==
    /\ IsDict(file_info)
    /\ dict_has(file_info, "path") /\ dict_has(file_info, "content")
    /\ IsStr(dict_at(file_info, "content"))
\* the entry the listing builds for one file
preview_entry(file_info) ==
    Dict(<<KV("path", Str(<<"workspace/">> \o FormatValue(dict_at(file_info, "path")))),
           KV("bytes", Num(Utf8Len(dict_at(file_info, "content").v))),
           KV("source", dict_get(file_info, "source", Str(<<"unknown">>))),
           KV("description", dict_get(file_info, "description", Str(<<>>)))>>)

\* a variant that writes whatever the request says
written_files_always(apply, plat, f, files) ==
    IF files # <<>>
    THEN [called |-> TRUE, raised |-> FALSE,
          fs |-> write_files_to_workspace(plat, f, files).fs,
          log |-> write_files_to_workspace(plat, f, files).log,
          files |-> write_files_to_workspace(plat, f, files).written]
    ELSE [called |-> FALSE, raised |-> FALSE, fs |-> f, log |-> <<>>, files |-> <<>>]
\* written_files of the handler: the writer's result when apply is set and
\* there are files, the listing otherwise
written_files(apply, plat, f, files) ==
    IF apply /\ files # <<>>
    THEN [called |-> TRUE, raised |-> FALSE,
          fs |-> write_files_to_workspace(plat, f, files).fs,
          log |-> write_files_to_workspace(plat, f, files).log,
          files |-> write_files_to_workspace(plat, f, files).written]
    ELSE IF \E i \in 1..Len(files) : ~CanPreview(files[i])
    THEN [called |-> FALSE, raised |-> TRUE, fs |-> f, log |-> <<>>, files |-> <<>>]
    ELSE [called |-> FALSE, raised |-> FALSE, fs |-> f, log |-> <<>>,
          files |-> [i \in 1..Len(files) |-> preview_entry(files[i])]]

\* what the handler does with the finished run
Respond(apply, files, commands, w) ==
    /\ runOutputs' = [status |-> "ok", apply |-> apply, files |-> files,
                      commands |-> commands,
                      http |-> IF w.raised THEN 500 ELSE 200,
                      reported |-> w.files]
    /\ fs' = w.fs
    /\ IF w.called
       THEN /\ wsCalls' = wsCalls + 1
            /\ wsBatch' = files
            /\ wsLog' = w.log
            /\ wsReturned' = w.files
       ELSE UNCHANGED <<wsCalls, wsBatch, wsLog, wsReturned>>
    /\ UNCHANGED <<platform, wsRaised>>

\* the rest of the handler once generate_code of the coordinator has returned
ExtractOutputs(apply) ==
    /\ pc = "DONE"
    /\ runOutputs.status = "none"
    /\ Respond(apply, get_files_for_workspace(results), get_setup_commands(results),
               written_files(apply, platform, fs, get_files_for_workspace(results)))
    /\ UNCHANGED <<pc, instruction, context, results, calls, parseLog, error, guess>>
Extract == \E apply \in BOOLEAN : ExtractOutputs(apply) /\ UNCHANGED ragVars

NextPipe == Start \/ PMRun \/ DevRun \/ TestRun \/ Extract

(***************************************************************************)
(* RAGSystem (app/core/rag.py)                                             *)
(***************************************************************************)
\* file_path.suffix.lower()
suffix_lower(suffix) ==
    CASE suffix = ".TXT" -> ".txt"
      [] suffix = ".PDF" -> ".pdf"
      [] OTHER           -> suffix
RecognizedSuffixes == {".txt", ".md", ".pdf"}

\* _extract_pdf_content: the text of every page followed by a newline; a
\* reader that fails yields ''
extract_pdf_content(file) ==
    IF ~file.readable THEN <<>>
    ELSE Concat([i \in 1..Len(file.pages) |-> file.pages[i] \o <<NL>>])

\* a variant whose handler returns a message instead of ''
extract_content_errtext(file) ==
    IF ~file.readable THEN <<"Could not extract content">>
    ELSE IF suffix_lower(file.suffix) = ".pdf" THEN extract_pdf_content(file)
    ELSE Concat(file.pages)

\* _extract_content: by suffix; a file that cannot be read yields ''
extract_content(file) ==
    IF suffix_lower(file.suffix) = ".pdf" THEN extract_pdf_content(file)
    ELSE IF ~file.readable THEN <<>>
    ELSE Concat(file.pages)

\* the files of the walk that are handed to _extract_content, in order
extract_calls(files) ==
    LET picked == SelectSeq(files, LAMBDA file :
                      file.is_file /\ suffix_lower(file.suffix) \in RecognizedSuffixes)
    IN  [i \in 1..Len(picked) |-> picked[i].path]

EmptyBatch == [documents |-> <<>>, metadatas |-> <<>>, ids |-> <<>>, files_processed |-> 0]

\* a variant of the walk that indexes blank files too
RECURSIVE ingest_collect_blank(_, _)
ingest_collect_blank(files, acc) ==
    IF files = <<>> THEN acc
    ELSE LET file == Head(files)
         IN  IF file.is_file /\ suffix_lower(file.suffix) \in RecognizedSuffixes
             THEN ingest_collect_blank(Tail(files),
                      [documents |-> Append(acc.documents, extract_content(file)),
                       metadatas |-> Append(acc.metadatas,
                                        [source |-> file.path, type |-> suffix_lower(file.suffix)]),
                       ids |-> Append(acc.ids, <<"doc_", IntStr(Len(acc.documents) + 1)>>),
                       files_processed |-> acc.files_processed + 1])
             ELSE ingest_collect_blank(Tail(files), acc)

\* the walk over path_obj.rglob("*"): the documents, metadatas and ids lists
\* and the counter after the files in walk order
RECURSIVE ingest_collect(_, _)
ingest_collect(files, acc) ==
    IF files = <<>> THEN acc
    ELSE LET file == Head(files)
         IN  IF /\ file.is_file
                /\ suffix_lower(file.suffix) \in RecognizedSuffixes
                /\ strip(extract_content(file)) # <<>>
             THEN ingest_collect(Tail(files),
                      [documents |-> Append(acc.documents, extract_content(file)),
                       metadatas |-> Append(acc.metadatas,
                                        [source |-> file.path, type |-> suffix_lower(file.suffix)]),
                       ids |-> Append(acc.ids, <<"doc_", IntStr(Len(acc.documents) + 1)>>),
                       files_processed |-> acc.files_processed + 1])
             ELSE ingest_collect(Tail(files), acc)

\* ollama_client.generate_embedding(text): the vector of a text
Embedding(text) == [of |-> text]

\* collection.add(documents, embeddings, metadatas, ids) of the vector store:
\* the records are stored in order; a record whose id is already stored is
\* ignored
RECURSIVE collection_add(_, _, _)
collection_add(coll, batch, i) ==
    IF i > Len(batch.ids) THEN coll
    ELSE collection_add(
             IF \E n \in 1..Len(coll) : coll[n].id = batch.ids[i] THEN coll
             ELSE Append(coll, [id |-> batch.ids[i], document |-> batch.documents[i],
                                embedding |-> batch.embeddings[i],
                                metadata |-> batch.metadatas[i]]),
             batch, i + 1)

\* a variant that hands the embeddings over in the reverse order
WithEmbeddings_reversed(batch, n) ==
    [documents  |-> SubSeq(batch.documents, 1, n),
     metadatas  |-> SubSeq(batch.metadatas, 1, n),
     ids        |-> SubSeq(batch.ids, 1, n),
     embeddings |-> [i \in 1..n |-> Embedding(batch.documents[n + 1 - i])]]

WithEmbeddings(batch, n) ==
    [documents  |-> SubSeq(batch.documents, 1, n),
     metadatas  |-> SubSeq(batch.metadatas, 1, n),
     ids        |-> SubSeq(batch.ids, 1, n),
     embeddings |-> [i \in 1..n |-> Embedding(batch.documents[i])]]

\* a variant that stores each document as soon as it is embedded
ingest_store_each(coll, batch, failAt) ==
    LET n == Len(batch.documents)
        failed == failAt \in 1..n
        done == IF failed THEN failAt - 1 ELSE n
    IN  [raised |-> failed,
         embedded |-> SubSeq(batch.documents, 1, IF failed THEN failAt ELSE n),
         added |-> [i \in 1..done |-> WithEmbeddings(batch, i)],
         collection |-> collection_add(coll, WithEmbeddings(batch, done), 1)]

\* the second half of ingest_documents: every document is embedded, one call
\* after the other, then the collection is written once.  failAt is the call
\* to generate_embedding that raises (0: none does)
ingest_store(coll, batch, failAt) ==
    LET n == Len(batch.documents)
        failed == failAt \in 1..n
    IN  IF failed
        THEN [raised |-> TRUE, embedded |-> SubSeq(batch.documents, 1, failAt),
              added |-> <<>>, collection |-> coll]
        ELSE [raised |-> FALSE, embedded |-> batch.documents,
              added |-> <<WithEmbeddings(batch, n)>>,
              collection |-> collection_add(coll, WithEmbeddings(batch, n), 1)]

\* a variant without the path_obj.exists() test: the walk of a missing path
\* finds nothing
ingest_documents_unchecked(coll, exists, files, failAt) ==
    LET batch == ingest_collect(IF exists THEN files ELSE <<>>, EmptyBatch)
        stored == ingest_store(coll, batch, failAt)
    IN  IF batch.documents = <<>>
        THEN [result |-> [status |-> "ok", files_processed |-> 0,
                          message |-> "No documents found to process"],
              embedded |-> <<>>, added |-> <<>>, collection |-> coll, walked |-> exists]
        ELSE [result |-> IF stored.raised THEN [status |-> "raised", exc |-> "BackendError"]
                         ELSE [status |-> "ok", files_processed |-> batch.files_processed,
                               message |-> "Successfully ingested"],
              embedded |-> stored.embedded, added |-> stored.added,
              collection |-> stored.collection, walked |-> TRUE]

\* ingest_documents(path): exists is whether the path exists, files what the
\* walk finds under it
ingest_documents(coll, exists, files, failAt) ==
    LET batch == ingest_collect(files, EmptyBatch)
        stored == ingest_store(coll, batch, failAt)
    IN  IF ~exists
        THEN [result |-> [status |-> "raised", exc |-> "ValueError"],
              embedded |-> <<>>, added |-> <<>>, collection |-> coll, walked |-> FALSE]
        ELSE IF batch.documents = <<>>
        THEN [result |-> [status |-> "ok", files_processed |-> 0,
                          message |-> "No documents found to process"],
              embedded |-> <<>>, added |-> <<>>, collection |-> coll, walked |-> TRUE]
        ELSE IF stored.raised
        THEN [result |-> [status |-> "raised", exc |-> "BackendError"],
              embedded |-> stored.embedded, added |-> stored.added,
              collection |-> stored.collection, walked |-> TRUE]
        ELSE [result |-> [status |-> "ok", files_processed |-> batch.files_processed,
                          message |-> "Successfully ingested"],
              embedded |-> stored.embedded, added |-> stored.added,
              collection |-> stored.collection, walked |-> TRUE]

\* the kinds of directory entry the walk may meet
FileKinds ==
    {[is_file |-> TRUE,  suffix |-> ".txt", readable |-> TRUE,  pages |-> <<<<"hello">>>>],
     [is_file |-> TRUE,  suffix |-> ".md",  readable |-> TRUE,  pages |-> <<<<"x", NL>>>>],
     [is_file |-> TRUE,  suffix |-> ".pdf", readable |-> TRUE,  pages |-> <<<<"hello">>, <<"x">>>>],
     [is_file |-> TRUE,  suffix |-> ".pdf", readable |-> TRUE,  pages |-> <<<<>>>>],
     [is_file |-> TRUE,  suffix |-> ".txt", readable |-> TRUE,  pages |-> <<>>],
     [is_file |-> TRUE,  suffix |-> ".txt", readable |-> TRUE,  pages |-> <<<<" ", NL>>>>],
     [is_file |-> TRUE,  suffix |-> ".txt", readable |-> FALSE, pages |-> <<<<"hello">>>>],
     [is_file |-> TRUE,  suffix |-> ".pdf", readable |-> FALSE, pages |-> <<<<"hello">>>>],
     [is_file |-> TRUE,  suffix |-> ".TXT", readable |-> TRUE,  pages |-> <<<<"x">>>>],
     [is_file |-> TRUE,  suffix |-> ".py",  readable |-> TRUE,  pages |-> <<<<"x">>>>],
     [is_file |-> FALSE, suffix |-> ".txt", readable |-> FALSE, pages |-> <<>>]}

MaxDirFiles == 2
MaxIngestCalls == 2
\* the i-th entry of the walk, with its path under the ingested directory
DirEntry(kind, i) ==
    [path |-> <<"docs", "/", "f", IntStr(i), kind.suffix>>, is_file |-> kind.is_file,
     suffix |-> kind.suffix, readable |-> kind.readable, pages |-> kind.pages]
Disks == UNION {{[i \in 1..n |-> DirEntry(ks[i], i)] : ks \in [1..n -> FileKinds]} : n \in 0..MaxDirFiles}


Ingest(exists, failAt) ==
    /\ ingestCalls < MaxIngestCalls
    /\ LET r == ingest_documents(collection, exists, disk, failAt)
       IN  /\ collection' = r.collection
           /\ embedCalls' = r.embedded
           /\ addCalls' = addCalls \o r.added
           /\ ingestResult' = r.result
           /\ ingestTrace' = [exists |-> exists,
                              extracted |-> IF r.walked THEN extract_calls(disk) ELSE <<>>]
    /\ ingestCalls' = ingestCalls + 1
    /\ UNCHANGED <<disk, searchTrace>>

\* the distance the store computes between the vector of a query and the
\* vector of a stored text: small for texts that start alike
Distance(qe, de) ==
    (IF de.of # <<>> /\ qe.of # <<>> /\ Head(de.of) = Head(qe.of) THEN 0 ELSE 2)
    + (IF Len(de.of) > Len(qe.of) THEN 1 ELSE 0)

\* collection.query(query_embeddings=[qe], n_results=n) of the vector store:
\* the n nearest records (all of them when fewer are stored), nearest first;
\* records at equal distance come in any order.  Each answer is the list of
\* positions of the hits in the collection.
QueryAnswers(coll, qe, n) ==
    LET m == MinOf(n, Len(coll))
    IN  {h \in [1..m -> 1..Len(coll)] :
            /\ \A i, j \in 1..m : i < j => h[i] # h[j]
            /\ \A i, j \in 1..m :
                  i < j => Distance(qe, coll[h[i]].embedding) <= Distance(qe, coll[h[j]].embedding)
            /\ \A i \in 1..m : \A c \in 1..Len(coll) :
                  (\A j \in 1..m : h[j] # c)
                      => Distance(qe, coll[h[i]].embedding) <= Distance(qe, coll[c].embedding)}
\* the dict the store returns for the hits h: parallel lists, one inner list
\* per query
query_results(coll, qe, h) ==
    [documents |-> <<[i \in 1..Len(h) |-> coll[h[i]].document]>>,
     metadatas |-> <<[i \in 1..Len(h) |-> coll[h[i]].metadata]>>,
     distances |-> <<[i \in 1..Len(h) |-> Distance(qe, coll[h[i]].embedding)]>>,
     ids       |-> <<[i \in 1..Len(h) |-> coll[h[i]].id]>>]

\* a variant that sorts the passages by content after formatting
format_results_by_length(res) ==
    LET n == Len(res.documents[1])
        order == CHOOSE f \in [1..n -> 1..n] :
                    /\ \A i, j \in 1..n : i # j => f[i] # f[j]
                    /\ \A i, j \in 1..n :
                          i < j => \/ Len(res.documents[1][f[i]]) > Len(res.documents[1][f[j]])
                                   \/ Len(res.documents[1][f[i]]) = Len(res.documents[1][f[j]])
                                      /\ f[i] < f[j]
    IN  [i \in 1..n |-> [content  |-> res.documents[1][order[i]],
                         metadata |-> res.metadatas[1][order[i]],
                         distance |-> res.distances[1][order[i]]]]

\* the loop of search_documents over range(len(results['documents'][0]))
format_results(res) ==
    [i \in 1..Len(res.documents[1]) |->
        [content  |-> res.documents[1][i],
         metadata |-> res.metadatas[1][i],
         distance |-> res.distances[1][i]]]

Queries == {<<"hello">>, <<"x">>}
MaxK == 2

\* search_documents(query, n_results): embedOk is whether generate_embedding
\* answers, h the hits the store returns
Search(query, n, embedOk, h) ==
    /\ searchTrace' =
          IF embedOk
          THEN [status |-> "ok", query |-> query, k |-> n,
                store |-> query_results(collection, Embedding(query), h),
                passages |-> format_results(query_results(collection, Embedding(query), h))]
          ELSE [status |-> "raised", query |-> query, k |-> n, exc |-> "BackendError"]
    /\ UNCHANGED <<disk, collection, embedCalls, addCalls, ingestResult, ingestCalls, ingestTrace>>

SearchStep == \E query \in Queries, n \in 1..MaxK, embedOk \in BOOLEAN :
                 \E h \in QueryAnswers(collection, Embedding(query), n) :
                    Search(query, n, embedOk, h) /\ UNCHANGED <<pipeVars, wsVars>>

IngestStep == \E exists \in BOOLEAN, failAt \in 0..Len(disk) :
                 Ingest(exists, failAt) /\ UNCHANGED <<pipeVars, wsVars>>

NextRag == IngestStep
NextSearch == SearchStep

(***************************************************************************)
(* Specifications: one per component, the other components at rest.        *)
(***************************************************************************)

\* the state before generate_code is called; no file written, nothing ingested
InitPipeline ==
    /\ pc = "START"
    /\ instruction = <<>>
    /\ context = Dict(<<>>)
    /\ results = <<>>
    /\ calls = <<>>
    /\ parseLog = <<>>
    /\ error = "none"
    /\ runOutputs = [status |-> "none"]
    /\ guess = [status |-> "none"]
    /\ platform = "posix"
    /\ fs = InitialFs
    /\ wsBatch = <<>>
    /\ wsLog = <<>>
    /\ wsReturned = <<>>
    /\ wsRaised = FALSE
    /\ wsCalls = 0
    /\ disk = <<>>
    /\ collection = <<>>
    /\ embedCalls = <<>>
    /\ addCalls = <<>>
    /\ ingestResult = [status |-> "none"]
    /\ ingestCalls = 0
    /\ ingestTrace = [exists |-> TRUE, extracted |-> <<>>]
    /\ searchTrace = [status |-> "none"]

\* one fenced block of a Developer response, before it is named
InitGuess ==
    /\ pc = "START"
    /\ instruction = <<>>
    /\ context = Dict(<<>>)
    /\ results = <<>>
    /\ calls = <<>>
    /\ parseLog = <<>>
    /\ error = "none"
    /\ runOutputs = [status |-> "none"]
    /\ guess \in [status : {"block"}, code : Bodies, lang : LangTags,
                 index : 0..MaxIndex, name : {<<>>}]
    /\ platform = "posix"
    /\ fs = InitialFs
    /\ wsBatch = <<>>
    /\ wsLog = <<>>
    /\ wsReturned = <<>>
    /\ wsRaised = FALSE
    /\ wsCalls = 0
    /\ disk = <<>>
    /\ collection = <<>>
    /\ embedCalls = <<>>
    /\ addCalls = <<>>
    /\ ingestResult = [status |-> "none"]
    /\ ingestCalls = 0
    /\ ingestTrace = [exists |-> TRUE, extracted |-> <<>>]
    /\ searchTrace = [status |-> "none"]

\* the state before write_files_to_workspace is called, on either platform
InitWorkspace ==
    /\ pc = "START"
    /\ instruction = <<>>
    /\ context = Dict(<<>>)
    /\ results = <<>>
    /\ calls = <<>>
    /\ parseLog = <<>>
    /\ error = "none"
    /\ runOutputs = [status |-> "none"]
    /\ guess = [status |-> "none"]
    /\ platform \in Platforms
    /\ fs = InitialFs
    /\ wsBatch = <<>>
    /\ wsLog = <<>>
    /\ wsReturned = <<>>
    /\ wsRaised = FALSE
    /\ wsCalls = 0
    /\ disk = <<>>
    /\ collection = <<>>
    /\ embedCalls = <<>>
    /\ addCalls = <<>>
    /\ ingestResult = [status |-> "none"]
    /\ ingestCalls = 0
    /\ ingestTrace = [exists |-> TRUE, extracted |-> <<>>]
    /\ searchTrace = [status |-> "none"]

\* a freshly constructed RAGSystem and the directory it will be pointed at
InitIngest ==
    /\ pc = "START"
    /\ instruction = <<>>
    /\ context = Dict(<<>>)
    /\ results = <<>>
    /\ calls = <<>>
    /\ parseLog = <<>>
    /\ error = "none"
    /\ runOutputs = [status |-> "none"]
    /\ guess = [status |-> "none"]
    /\ platform = "posix"
    /\ fs = InitialFs
    /\ wsBatch = <<>>
    /\ wsLog = <<>>
    /\ wsReturned = <<>>
    /\ wsRaised = FALSE
    /\ wsCalls = 0
    /\ disk \in Disks
    /\ collection = <<>>
    /\ embedCalls = <<>>
    /\ addCalls = <<>>
    /\ ingestResult = [status |-> "none"]
    /\ ingestCalls = 0
    /\ ingestTrace = [exists |-> TRUE, extracted |-> <<>>]
    /\ searchTrace = [status |-> "none"]

\* a RAGSystem after one successful ingest of the directory
InitSearch ==
    /\ pc = "START"
    /\ instruction = <<>>
    /\ context = Dict(<<>>)
    /\ results = <<>>
    /\ calls = <<>>
    /\ parseLog = <<>>
    /\ error = "none"
    /\ runOutputs = [status |-> "none"]
    /\ guess = [status |-> "none"]
    /\ platform = "posix"
    /\ fs = InitialFs
    /\ wsBatch = <<>>
    /\ wsLog = <<>>
    /\ wsReturned = <<>>
    /\ wsRaised = FALSE
    /\ wsCalls = 0
    /\ disk \in Disks
    /\ collection = ingest_documents(<<>>, TRUE, disk, 0).collection
    /\ embedCalls = ingest_documents(<<>>, TRUE, disk, 0).embedded
    /\ addCalls = ingest_documents(<<>>, TRUE, disk, 0).added
    /\ ingestResult = ingest_documents(<<>>, TRUE, disk, 0).result
    /\ ingestCalls = 1
    /\ ingestTrace = [exists |-> TRUE, extracted |-> extract_calls(disk)]
    /\ searchTrace = [status |-> "none"]

SpecPipeline == InitPipeline /\ [][NextPipe]_vars
SpecWorkspace == InitWorkspace /\ [][NextWs]_vars
SpecRag == InitIngest /\ [][NextRag]_vars
SpecSearch == InitSearch /\ [][NextSearch]_vars
SpecGuess == InitGuess /\ [][NextGuess]_vars

(***************************************************************************)
(* Properties of the workspace writer (SpecWorkspace).                     *)
(***************************************************************************)
BatchIdx == 1..Len(wsBatch)
HasStrPath(file_info) == dict_has(file_info, "path") /\ IsStr(dict_at(file_info, "path"))
\* the paths that leave the workspace, written with the platform's separators
EscapingPaths(plat) ==
    {P_traversal, P_absolute} \cup (IF plat = "windows" THEN {P_backslash} ELSE {})
InsidePaths(plat) ==
    {P_plain, P_nested, P_dir, P_inside} \cup (IF plat = "windows" THEN {} ELSE {P_backslash})
\* nothing outside the workspace root was created or changed
OutsideUntouched ==
    \A q \in DOMAIN fs :
        IsWithin(q, WorkspaceRoot(platform)) \/ (q \in DOMAIN InitialFs /\ fs[q] = InitialFs[q])
\* every write went to a place under the workspace root
WritesInside ==
    \A i \in 1..Len(wsLog) :
        wsLog[i].target # <<>> => IsWithin(wsLog[i].target, WorkspaceRoot(platform))
\* the entries of the batch that were written, in input order
WrittenIdx == SelectSeq([i \in 1..Len(wsLog) |-> i], LAMBDA i : wsLog[i].outcome = "written")
Rejected(paths) ==
    \A i \in BatchIdx :
        (HasStrPath(wsBatch[i]) /\ dict_at(wsBatch[i], "path").v \in paths)
            => /\ wsLog[i].outcome = "unsafe"
               /\ \A n \in 1..Len(wsReturned) :
                     dict_at(wsReturned[n], "path")
                         # Str(full_path_str(platform, dict_at(wsBatch[i], "path").v))

\* C7 (as stated): is_safe_path is false for a relative path that escapes the
\* workspace, ../../etc/passwd in either separator style, and true for a plain
\* relative name; write_files_to_workspace neither writes nor reports an
\* entry outside the workspace root.
C7_Original ==
    (wsCalls > 0)
        => /\ is_safe_path(platform, Str(P_plain))
           /\ Rejected({P_traversal, P_backslash})
           /\ OutsideUntouched
           /\ WritesInside

\* C7 (amended): is_safe_path is false exactly for the paths that escape the
\* workspace when split at the separators of the platform it runs on
\* (..\..\etc\passwd is one file name inside the workspace on POSIX), true
\* for a plain relative name, and no call writes or reports an entry outside
\* the workspace root.
C7_NoWriteOutsideRoot ==
    /\ \A q \in EscapingPaths(platform) : ~is_safe_path(platform, Str(q))
    /\ \A q \in InsidePaths(platform) : is_safe_path(platform, Str(q))
    /\ (wsCalls > 0) => Rejected(EscapingPaths(platform))
    /\ OutsideUntouched
    /\ WritesInside
    /\ Len(wsReturned) = Len(WrittenIdx)

C7_Witness ==
    /\ wsCalls = 1
    /\ \E i, j \in BatchIdx :
          /\ wsBatch[i] = FileInfo(Str(P_traversal), Str(<<"x">>))
          /\ wsLog[i].outcome = "unsafe"
          /\ wsBatch[j] = FileInfo(Str(P_inside), Str(<<"x">>))
          /\ wsLog[j].outcome = "written"

C20_RewriteIsIdempotent ==
    [][(wsCalls = 1 /\ wsCalls' = 2) => (fs' = fs /\ wsReturned' = wsReturned)]_vars

C20_Witness ==
    /\ wsCalls = 2
    /\ Len(wsBatch) = 2
    /\ Len(wsReturned) = 1
    /\ \E i \in 1..Len(wsLog) : wsLog[i].outcome = "failed"
    /\ \E i \in 1..Len(wsLog) : wsLog[i].outcome = "written"

(***************************************************************************)
(* Properties of ingestion (SpecRag).                                      *)
(***************************************************************************)
NonBlank(text) == \E i \in 1..Len(text) : ~IsWs(text[i])
\* a file of the walk that ingestion indexes
Indexable(file) ==
    /\ file.is_file
    /\ suffix_lower(file.suffix) \in RecognizedSuffixes
    /\ NonBlank(extract_content(file))
IndexableFiles == SelectSeq(disk, Indexable)
LastAdd == addCalls[Len(addCalls)]
DocumentsOf(coll) == [i \in 1..Len(coll) |-> coll[i].document]

\* C9: a successful ingest hands the index exactly one document per file with
\* a recognized extension whose extracted text is not empty or whitespace
\* only, with metadata.source the path of that file; files with blank text
\* are not indexed, and files_processed is the number of documents indexed
\* by the call.
C9_OneDocumentPerFile ==
    (ingestResult.status = "ok")
        => /\ ingestResult.files_processed = Len(IndexableFiles)
           /\ IF IndexableFiles = <<>> THEN addCalls = <<>> /\ collection = <<>>
              ELSE /\ addCalls # <<>>
                   /\ LastAdd.documents =
                         [i \in 1..Len(IndexableFiles) |-> extract_content(IndexableFiles[i])]
                   /\ LastAdd.metadatas =
                         [i \in 1..Len(IndexableFiles) |->
                             [source |-> IndexableFiles[i].path,
                              type |-> suffix_lower(IndexableFiles[i].suffix)]]
                   /\ Len(LastAdd.ids) = Len(IndexableFiles)
                   /\ Len(LastAdd.embeddings) = Len(IndexableFiles)
                   /\ \A i \in 1..Len(LastAdd.documents) : NonBlank(LastAdd.documents[i])
                   /\ Len(addCalls) = 1 => DocumentsOf(collection) = LastAdd.documents

C9_Witness ==
    /\ ingestResult.status = "ok"
    /\ ingestResult.files_processed = 1
    /\ Len(disk) = 2
    /\ \E i \in 1..2 : /\ disk[i].is_file
                       /\ disk[i].suffix = ".txt"
                       /\ disk[i].readable
                       /\ ~NonBlank(extract_content(disk[i]))

\* C10 (as stated): when the embedding of some document fails, the documents
\* of the same call that were handled before the failure remain in the index.
C10_Original ==
    (ingestCalls = 1 /\ ingestResult.status = "raised" /\ ingestResult.exc = "BackendError")
        => \A i \in 1..(Len(embedCalls) - 1) :
              \E n \in 1..Len(collection) : collection[n].document = embedCalls[i]

\* C10 (amended): every document of a call is embedded before the index is
\* written, once, for all of them; when the embedding of some document fails
\* the call aborts with the error propagated and the index is as it was
\* before the call: nothing of the call is stored.
C10_FailedIngestStoresNothing ==
    [][(ingestCalls' = ingestCalls + 1)
          => /\ (ingestResult'.status = "raised")
                   => (collection' = collection /\ addCalls' = addCalls)
             /\ (ingestResult'.status = "ok" /\ ingestResult'.files_processed > 0)
                   => /\ Len(addCalls') = Len(addCalls) + 1
                      /\ embedCalls' = addCalls'[Len(addCalls')].documents]_vars

C10_Witness ==
    /\ ingestCalls = 1
    /\ ingestResult.status = "raised"
    /\ ingestResult.exc = "BackendError"
    /\ Len(embedCalls) = 2

\* the sources of the batch a successful call handed to the index
LastSources ==
    IF addCalls = <<>> THEN {}
    ELSE {LastAdd.metadatas[i].source : i \in 1..Len(LastAdd.metadatas)}
IdsOf(batch) == {batch.ids[i] : i \in 1..Len(batch.ids)}

\* C11: re-ingesting an unchanged directory with n indexable files duplicates
\* its documents: after two successful calls the index holds 2n documents,
\* the ids of the second call colliding with none of the first.
C11_ReingestDuplicates ==
    (Len(addCalls) = 2 /\ ingestResult.status = "ok")
        => /\ Len(collection) = 2 * Len(IndexableFiles)
           /\ IdsOf(addCalls[1]) \cap IdsOf(addCalls[2]) = {}

\* C12: ingest_documents on a path that does not exist raises the not-found
\* error to the caller without extracting a file, requesting an embedding
\* or changing the index.
C12_MissingPathFailsCleanly ==
    [][(ingestCalls' = ingestCalls + 1 /\ ~ingestTrace'.exists)
          => /\ ingestResult' = [status |-> "raised", exc |-> "ValueError"]
             /\ ingestTrace'.extracted = <<>>
             /\ embedCalls' = <<>>
             /\ collection' = collection
             /\ addCalls' = addCalls]_vars

C12_Witness ==
    /\ ingestCalls = 2
    /\ ~ingestTrace.exists
    /\ ingestResult.status = "raised"
    /\ collection # <<>>

\* a recognized file whose extraction fails
Unreadable(file) ==
    file.is_file /\ suffix_lower(file.suffix) \in RecognizedSuffixes /\ ~file.readable

\* C19: extraction is failure-tolerant: a file that cannot be read or
\* extracted yields empty text, is skipped and not counted, and ingestion
\* goes on with the remaining files; no call aborts because of it.
C19_ExtractionFailureTolerant ==
    /\ \A i \in 1..Len(disk) : Unreadable(disk[i]) => extract_content(disk[i]) = <<>>
    /\ (ingestResult.status = "raised")
          => \/ ingestResult.exc = "ValueError" /\ ~ingestTrace.exists
             \/ ingestResult.exc = "BackendError" /\ embedCalls # <<>>
    /\ (ingestResult.status = "ok")
          => /\ \A i \in 1..Len(disk) :
                   Unreadable(disk[i])
                       => /\ \E n \in 1..Len(ingestTrace.extracted) :
                                 ingestTrace.extracted[n] = disk[i].path
                          /\ disk[i].path \notin LastSources
             /\ \A i \in 1..Len(disk) : Indexable(disk[i]) => disk[i].path \in LastSources
             /\ ingestResult.files_processed
                    = Cardinality({i \in 1..Len(disk) : Indexable(disk[i])})

C19_Witness ==
    /\ ingestResult.status = "ok"
    /\ ingestResult.files_processed = 1
    /\ Len(disk) = 2
    /\ Unreadable(disk[1])
    /\ disk[1].suffix = ".pdf"
    /\ Indexable(disk[2])

\* C27: the batch one ingest call hands to the vector store is aligned: the
\* lists of texts, metadata, embeddings and ids have one length, the call's
\* files_processed; the ids are doc_1..doc_n, pairwise distinct; the i-th
\* embedding is that of the i-th text and the i-th metadata names the file
\* the i-th text was extracted from; when no file yields text no embedding
\* is requested and the store is not written.
C27_BatchAligned ==
    /\ \A c \in 1..Len(addCalls) :
          LET b == addCalls[c]
              n == Len(b.documents)
          IN  /\ Len(b.metadatas) = n /\ Len(b.embeddings) = n /\ Len(b.ids) = n
              /\ n > 0
              /\ \A i \in 1..n :
                    /\ b.ids[i] = <<"doc_", IntStr(i)>>
                    /\ \A j \in 1..n : (i # j) => b.ids[i] # b.ids[j]
                    /\ b.embeddings[i] = Embedding(b.documents[i])
                    /\ \E f \in 1..Len(disk) :
                          /\ disk[f].path = b.metadatas[i].source
                          /\ extract_content(disk[f]) = b.documents[i]
    /\ (ingestResult.status = "ok" /\ addCalls # <<>>)
          => /\ ingestResult.files_processed = Len(LastAdd.documents)
             /\ embedCalls = LastAdd.documents
    /\ (ingestCalls > 0 /\ ingestTrace.exists /\ \A f \in 1..Len(disk) : ~Indexable(disk[f]))
          => /\ embedCalls = <<>>
             /\ addCalls = <<>>
             /\ collection = <<>>
             /\ ingestResult.status = "ok" /\ ingestResult.files_processed = 0

C27_Witness ==
    /\ ingestResult.status = "ok"
    /\ ingestResult.files_processed = 2
    /\ Len(LastAdd.documents) = 2
    /\ LastAdd.documents[1] # LastAdd.documents[2]
    /\ LastAdd.ids = << <<"doc_", "1">>, <<"doc_", "2">> >>

\* the other case of C27: a walk that finds files but no text
C27_NoTextWitness ==
    /\ ingestCalls > 0
    /\ Len(disk) = 2
    /\ ingestResult.status = "ok" /\ ingestResult.files_processed = 0
    /\ embedCalls = <<>> /\ addCalls = <<>>

(***************************************************************************)
(* Properties of search (SpecSearch).                                      *)
(***************************************************************************)
\* C13: search_documents(q, k) returns at most k passages in non-decreasing
\* distance order, one passage per hit of the store in the order the store
\* returned them, the content, metadata and distance of a hit kept together;
\* on an empty index it returns an empty list without error.
C13_SearchReturnsNearestInOrder ==
    (searchTrace.status = "ok")
        => LET ps == searchTrace.passages
               st == searchTrace.store
           IN  /\ Len(ps) <= searchTrace.k
               /\ Len(ps) = MinOf(searchTrace.k, Len(collection))
               /\ \A i, j \in 1..Len(ps) : i < j => ps[i].distance <= ps[j].distance
               /\ Len(ps) = Len(st.ids[1])
               /\ \A i \in 1..Len(ps) :
                     \E n \in 1..Len(collection) :
                        /\ collection[n].id = st.ids[1][i]
                        /\ ps[i].content = collection[n].document
                        /\ ps[i].metadata = collection[n].metadata
                        /\ ps[i].distance
                              = Distance(Embedding(searchTrace.query), collection[n].embedding)
               /\ (collection = <<>>) => ps = <<>>

C13_Witness ==
    /\ searchTrace.status = "ok"
    /\ searchTrace.k = 2
    /\ Len(searchTrace.passages) = 2
    /\ searchTrace.passages[1].distance < searchTrace.passages[2].distance
    /\ searchTrace.passages[1].content # collection[1].document

(***************************************************************************)
(* Properties of the pipeline (SpecPipeline).                              *)
(***************************************************************************)
RunEnded == pc \in {"DONE", "FAILED"}
AgentCalls == SelectSeq(calls, LAMBDA c : c.agent # "Retrieval")
ResultAgents == [i \in 1..Len(results) |-> dict_at(results[i], "agent").v[1]]
\* the entries of parseLog: one per call of an agent's _parse_response
Parses == {parseLog[i] : i \in 1..Len(parseLog)}
Returned == {e \in Parses : ~e.raised}

\* strict extraction succeeds: the text has a brace span and json.loads accepts it
StrictSucceeds(response) ==
    re_search_braces(response).matched
    /\ ~json_loads(re_search_braces(response).group).raised
\* the files code-block recovery builds from the fenced regions of a response
FencedCandidates(agent, response) ==
    CASE agent = "Developer" -> Dev_files_from_blocks(response)
      [] agent = "Tester"    -> Tester_files_from_blocks(response)
      [] OTHER               -> <<>>
PayloadKey(agent) ==
    CASE agent = "ProductManager" -> "specifications"
      [] agent = "Developer"      -> "code"
      [] agent = "Tester"         -> "review"
Payload(e) == dict_at(e.val, PayloadKey(e.agent))
PayloadFiles(e) ==
    dict_at(Payload(e), IF e.agent = "Tester" THEN "test_files" ELSE "files")
HasParseError(e) ==
    dict_has(e.val, "parsing_error") /\ dict_at(e.val, "parsing_error") # Null

HasList(d, key) == dict_has(d, key) /\ IsList(dict_at(d, key))
IsFileEntry(x) == IsDict(x) /\ dict_has(x, "path") /\ dict_has(x, "content")
ConformsToSchema(agent, payload) ==
    /\ IsDict(payload)
    /\ CASE agent = "ProductManager" -> HasList(payload, "specifications")
         [] agent = "Developer" ->
                /\ HasList(payload, "files")
                /\ \A i \in 1..Len(dict_at(payload, "files").v) :
                      IsFileEntry(dict_at(payload, "files").v[i])
                /\ dict_has(payload, "dependencies")
                /\ dict_has(payload, "setup_commands")
         [] agent = "Tester" ->
                /\ dict_has(payload, "issues_found")
                /\ dict_has(payload, "test_files")
                /\ dict_has(payload, "quality_score")

\* C18: context keys written by earlier stages are never overwritten: every
\* step of a run, a stage's whole processing included, leaves each key the
\* context holds with the value it had; what the stage produced is added
\* under a key of its own.
C18_ContextNeverOverwritten ==
    [][\A i \in 1..Len(context.v) :
          /\ dict_has(context', context.v[i].key[1])
          /\ dict_at(context', context.v[i].key[1]) = context.v[i].val]_vars

C18_Witness ==
    /\ pc = "DONE"
    /\ Len(context.v) = 5
    /\ \A key \in {"instruction", "rag_context", "specifications", "code", "review"} :
          dict_has(context, key)
    /\ dict_at(context, "code") # Dict(<<>>)

\* the markers of the body of the block being named
BodyHas(marker) == str_contains(str_lower(guess.code), marker)
EntryPointMarker == BodyHas("def main(") \/ BodyHas("if __name__")
ClassWithTest == BodyHas("class ") /\ BodyHas("test")
WebBootstrap == BodyHas("fastapi") \/ BodyHas("app = ")
TestFrameworkImport == BodyHas("import unittest") \/ BodyHas("import pytest")
SourceTagOrImport == guess.lang = <<"python">> \/ BodyHas("import ")
AnyContentMarker ==
    EntryPointMarker \/ ClassWithTest \/ WebBootstrap \/ TestFrameworkImport \/ BodyHas("import ")
ShellTags == {<<"bash">>, <<"shell">>, <<"sh">>}
ScriptTags == {<<"javascript">>, <<"js">>}
RecognizedTags == {<<"python">>} \cup ShellTags \cup ScriptTags
NoEarlierRule ==
    ~EntryPointMarker /\ ~ClassWithTest /\ ~WebBootstrap /\ ~TestFrameworkImport
    /\ ~SourceTagOrImport
Numbered(stem, ext) == <<stem, IntStr(guess.index), ext>>

C17_UnrecognizedTagIsPlainText ==
    (guess.status = "named" /\ guess.lang \notin RecognizedTags /\ ~AnyContentMarker)
        => guess.name = Numbered("file_", ".txt")

\* the Developer's files and setup commands and the Tester's test files, as
\* the finished run holds them
RunDevCode == dict_at(results[2], "code")
RunReview == dict_at(results[3], "review")
RunDevFiles == IF HasList(RunDevCode, "files") THEN dict_at(RunDevCode, "files").v ELSE <<>>
RunTestFiles == IF HasList(RunReview, "test_files") THEN dict_at(RunReview, "test_files").v ELSE <<>>
RunCommands ==
    IF HasList(RunDevCode, "setup_commands") THEN dict_at(RunDevCode, "setup_commands").v ELSE <<>>
\* the entry f is the entry g with the tag `stage` as its source
IsTaggedCopy(f, g, stage) ==
    /\ IsDict(f)
    /\ dict_has(f, "source") /\ dict_at(f, "source") = Str(<<stage>>)
    /\ \A key \in {"path", "content", "description"} :
          /\ dict_has(f, key) = dict_has(g, key)
          /\ dict_has(g, key) => dict_at(f, key) = dict_at(g, key)
\* a finished run holds its files under list-valued keys, or not at all
RunFilesAreLists ==
    (pc = "DONE")
        => /\ IsDict(RunDevCode) /\ IsDict(RunReview)
           /\ dict_has(RunDevCode, "files") => IsList(dict_at(RunDevCode, "files"))
           /\ dict_has(RunReview, "test_files") => IsList(dict_at(RunReview, "test_files"))
           /\ dict_has(RunDevCode, "setup_commands")
                 => IsList(dict_at(RunDevCode, "setup_commands"))
           /\ \A i \in 1..Len(RunDevFiles) : IsDict(RunDevFiles[i])
           /\ \A i \in 1..Len(RunTestFiles) : IsDict(RunTestFiles[i])

\* C14: get_files_for_workspace(run) is the Developer's files followed by the
\* Tester's test files, the order within each list kept, each entry tagged
\* with its stage as source; its length is the sum of the two lengths.
C14_FilesDeveloperThenTester ==
    (runOutputs.status = "ok")
        => /\ Len(runOutputs.files) = Len(RunDevFiles) + Len(RunTestFiles)
           /\ \A i \in 1..Len(RunDevFiles) :
                 IsTaggedCopy(runOutputs.files[i], RunDevFiles[i], "developer")
           /\ \A i \in 1..Len(RunTestFiles) :
                 IsTaggedCopy(runOutputs.files[Len(RunDevFiles) + i], RunTestFiles[i], "tester")

C14_Witness ==
    /\ runOutputs.status = "ok"
    /\ Len(RunDevFiles) = 2
    /\ Len(RunTestFiles) = 1
    /\ Len(runOutputs.files) = 3
    /\ dict_at(runOutputs.files[3], "source") = Str(<<"tester">>)

\* C15: get_setup_commands(run) is the Developer's setup commands as declared:
\* the same strings in the same order, duplicates kept.
C15_SetupCommandsVerbatim ==
    (runOutputs.status = "ok") => runOutputs.commands = RunCommands

C15_Witness ==
    /\ runOutputs.status = "ok"
    /\ Len(runOutputs.commands) = 2
    /\ runOutputs.commands[1] = runOutputs.commands[2]

\* the span from the first "{" of a text to its last "}"
FirstBrace(response) == Min({i \in 1..Len(response) : response[i] = "{"})
LastBrace(response) == Max({i \in 1..Len(response) : response[i] = "}"})
HasBraceSpan(response) ==
    /\ \E i \in 1..Len(response) : response[i] = "{"
    /\ \E i \in 1..Len(response) : response[i] = "}"
    /\ FirstBrace(response) < LastBrace(response)
BraceSpan(response) == SubSeq(response, FirstBrace(response), LastBrace(response))
HasFence(response) == \E i \in 1..Len(response) : response[i] = FENCE

\* C22: strict extraction parses the span from the first "{" to the last "}"
\* of the raw text; when that parse succeeds the payload is exactly the parsed
\* object, no parse error is recorded and the fenced blocks of the text are
\* not used; for each of the three agents.
C22_StrictParseIsThePayload ==
    \A e \in Parses :
        (HasBraceSpan(e.response) /\ ~json_loads(BraceSpan(e.response)).raised)
            => /\ ~e.raised
               /\ Payload(e) = json_loads(BraceSpan(e.response)).val
               /\ ~dict_has(e.val, "parsing_error")
               /\ e.steps = {"strict"}

C22_Witness ==
    /\ pc = "DONE"
    /\ \A e \in Parses :
          /\ HasFence(e.response)
          /\ HasBraceSpan(e.response)
          /\ e.response # BraceSpan(e.response)
          /\ Payload(e) = Dict(<<KV("files", List(<<>>))>>)
    /\ {e.agent : e \in Parses} = {"ProductManager", "Developer", "Tester"}

\* the fenced regions of a response that are test code: a body that is not
\* blank and holds 'test' or 'assert' in any case
Regions(response) == re_findall_fences(response)
IsTestRegion(region) ==
    /\ strip(region.code) # <<>>
    /\ \E i \in 1..Len(region.code) :
          \/ "test" \in Substrings(Lower(region.code[i]))
          \/ "assert" \in Substrings(Lower(region.code[i]))
TestRegionIdx(response) ==
    {i \in 1..Len(Regions(response)) : IsTestRegion(Regions(response)[i])}
\* the position in the response of the n-th test region
NthTestRegion(response, n) ==
    CHOOSE k \in TestRegionIdx(response) :
        Cardinality({j \in TestRegionIdx(response) : j <= k}) = n
\* the Tester's parses that took the code-block recovery
TesterRecoveries == {e \in Returned : e.agent = "Tester" /\ "codeblock" \in e.steps}

\* C23: in the Tester's code-block recovery a fenced region becomes a test
\* file iff its body is not empty and holds 'test' or 'assert' in any case;
\* the other regions are discarded and the kept ones keep their order.
C23_TestFilesAreTestRegions ==
    \A e \in TesterRecoveries :
        /\ IsList(PayloadFiles(e))
        /\ Len(PayloadFiles(e).v) = Cardinality(TestRegionIdx(e.response))
        /\ \A n \in 1..Len(PayloadFiles(e).v) :
              /\ dict_at(PayloadFiles(e).v[n], "content")
                    = Str(strip(Regions(e.response)[NthTestRegion(e.response, n)].code))
              /\ dict_at(PayloadFiles(e).v[n], "path")
                    = Str(<<"test_", IntStr(NthTestRegion(e.response, n) - 1), ".py">>)

C23_Witness ==
    \E e \in TesterRecoveries :
        /\ Len(Regions(e.response)) = 3
        /\ Len(PayloadFiles(e).v) = 2
        /\ dict_at(PayloadFiles(e).v[1], "content") = Str(<<"test">>)
        /\ dict_at(PayloadFiles(e).v[2], "path") = Str(<<"test_", "2", ".py">>)

\* every string held anywhere in a value
RECURSIVE StringsOf(_)
StringsOf(x) ==
    CASE x.k = "str"  -> {x.v}
      [] x.k = "list" -> UNION {StringsOf(x.v[i]) : i \in 1..Len(x.v)}
      [] x.k = "dict" -> UNION {StringsOf(x.v[i].val) : i \in 1..Len(x.v)}
      [] OTHER        -> {}
\* the text t occurs in the string str
OccursIn(t, str) ==
    \E i \in 1..(Len(str) - Len(t) + 1) : SubSeq(str, i, i + Len(t) - 1) = t
\* some string of the value quotes the text t
References(x, t) == \E str \in StringsOf(x) : OccursIn(t, str)
\* the parses that ended in the terminal fallback, the except handler
TerminalFallbacks == {e \in Returned : HasParseError(e)}

\* C24: for each of the three agents, the payload of the terminal fallback
\* quotes both the original instruction and a prefix of the raw response.
C24_PlaceholderQuotesInstructionAndResponse ==
    \A e \in TerminalFallbacks :
        /\ References(Payload(e), dict_at(e.ctx, "instruction").v)
        /\ \E n \in 1..Len(e.response) : References(Payload(e), Prefix(e.response, n))

\* what holds of C24: the Developer's placeholder quotes both
DeveloperPlaceholderQuotesBoth ==
    \A e \in TerminalFallbacks :
        (e.agent = "Developer")
            => /\ References(Payload(e), dict_at(e.ctx, "instruction").v)
               /\ References(Payload(e), Prefix(e.response, MinOf(Len(e.response), EmergencyPrefixLen)))

\* C25: the endpoint leaves the workspace unchanged when apply is false: the
\* writer is not called and the response lists, for each file of
\* get_files_for_workspace in order, the path under workspace/ and the UTF-8
\* byte length of its content; the writer is called, exactly once, only when
\* apply is true and the file list is not empty.
C25_NoWriteUnlessApplied ==
    /\ (runOutputs.status = "none") => (fs = InitialFs /\ wsCalls = 0)
    /\ (runOutputs.status = "ok")
          => /\ wsCalls = IF runOutputs.apply /\ runOutputs.files # <<>> THEN 1 ELSE 0
             /\ (wsCalls = 1) => wsBatch = runOutputs.files
             /\ ~runOutputs.apply
                   => /\ fs = InitialFs
                      /\ runOutputs.http = 200
                      /\ Len(runOutputs.reported) = Len(runOutputs.files)
                      /\ \A i \in 1..Len(runOutputs.files) :
                            /\ dict_at(runOutputs.reported[i], "path")
                                  = Str(<<"workspace/">>
                                        \o FormatValue(dict_at(runOutputs.files[i], "path")))
                            /\ dict_at(runOutputs.reported[i], "bytes")
                                  = Num(ByteSize("posix",
                                                 dict_at(runOutputs.files[i], "content").v))

C25_Witness ==
    /\ runOutputs.status = "ok"
    /\ ~runOutputs.apply
    /\ Len(runOutputs.files) = 3
    /\ Len(runOutputs.reported) = 3
    /\ dict_at(runOutputs.reported[3], "path") = Str(<<"workspace/", "test_", "main", ".py">>)
    /\ fs = InitialFs

\* the other branch of the handler: the files are on disk after one call
C25_AppliedWitness ==
    /\ runOutputs.status = "ok"
    /\ runOutputs.apply
    /\ wsCalls = 1
    /\ Len(runOutputs.reported) = 3
    /\ fs # InitialFs

\* the Developer's parses that took the code-block recovery
DeveloperRecoveries == {e \in Returned : e.agent = "Developer" /\ "codeblock" \in e.steps}

\* C26: the files the Developer's code-block recovery builds from one
\* response have pairwise distinct paths.
C26_RecoveredPathsDistinct ==
    \A e \in DeveloperRecoveries :
        \A i, j \in 1..Len(PayloadFiles(e).v) :
            (i # j) => dict_at(PayloadFiles(e).v[i], "path")
                          # dict_at(PayloadFiles(e).v[j], "path")

\* what follows from C26 failing: an applied run reports two files written
\* to one path, and the workspace holds only the later one
RecoveredFileOverwritten ==
    /\ runOutputs.status = "ok" /\ runOutputs.apply
    /\ Len(runOutputs.reported) >= 2
    /\ dict_at(runOutputs.reported[1], "path") = dict_at(runOutputs.reported[2], "path")
    /\ dict_at(runOutputs.files[1], "content") # dict_at(runOutputs.files[2], "content")

\* C21: one agent run makes exactly one inference-backend call and never
\* retries; when that call fails the run raises the backend's error, nothing
\* is parsed and no result is returned.
C21_OneBackendCallPerRun ==
    [][(pc \in {"PM_RUN", "DEV_RUN", "TEST_RUN"} /\ pc' # pc)
          => /\ Len(calls') = Len(calls) + 1
             /\ ~calls'[Len(calls')].ok
                   => /\ pc' = "FAILED"
                      /\ error' = "BackendError"
                      /\ parseLog' = parseLog
                      /\ results' = results
             /\ calls'[Len(calls')].ok => Len(parseLog') = Len(parseLog) + 1]_vars

\* what C21 leaves when the prompt could not be built: such a run makes no
\* call; every other run makes exactly one, and a failed call ends the run
\* unparsed
AtMostOneBackendCallPerRun ==
    [][(pc \in {"PM_RUN", "DEV_RUN", "TEST_RUN"} /\ pc' # pc)
          => \/ /\ calls' = calls
                /\ parseLog' = parseLog /\ results' = results
                /\ pc' = "FAILED" /\ error' \in {"TypeError", "KeyError", "AttributeError"}
             \/ /\ Len(calls') = Len(calls) + 1
                /\ ~calls'[Len(calls')].ok
                      => /\ pc' = "FAILED"
                         /\ error' = "BackendError"
                         /\ parseLog' = parseLog
                         /\ results' = results
                /\ calls'[Len(calls')].ok => Len(parseLog') = Len(parseLog) + 1]_vars

\* C1: a run calls ProductManager, Developer, Tester in that order; when the
\* three backend calls of a run all succeed, whatever text they return, the
\* run ends with exactly three agent results in that order; when the
\* Developer's backend call fails the Tester is never run, there is no
\* Tester result and the error reaches the caller.
C1_ThreeResultsInOrder ==
    /\ \A i \in 1..Len(AgentCalls) : AgentCalls[i].agent = Agents[i]
    /\ (Len(AgentCalls) = 3 /\ \A i \in 1..Len(calls) : calls[i].ok)
          => (pc = "DONE" /\ ResultAgents = Agents)
    /\ (\E i \in 1..Len(calls) : calls[i].agent = "Developer" /\ ~calls[i].ok)
          => /\ pc = "FAILED"
             /\ error = "BackendError"
             /\ \A i \in 1..Len(calls) : calls[i].agent # "Tester"
             /\ \A i \in 1..Len(ResultAgents) : ResultAgents[i] # "Tester"

\* C2: _parse_response of each of the three agents never raises: for every
\* response text and every context the pipeline supplies it returns a value.
C2_ParseNeverRaises == \A e \in Parses : ~e.raised

\* C3: the structured payload of every agent result conforms to the agent's
\* declared schema, on every parser path, a successful strict parse included.
C3_PayloadConforms == \A e \in Returned : ConformsToSchema(e.agent, Payload(e))

\* C4: whenever strict extraction fails, for want of a brace span or because
\* the span is no valid object, the Developer and Tester parsers run
\* code-block recovery and build their file list from the fenced regions
\* before any terminal fallback.
C4_CodeBlockBeforeTerminal ==
    \A e \in Parses :
        (e.agent \in {"Developer", "Tester"} /\ ~StrictSucceeds(e.response))
            => /\ "codeblock" \in e.steps
               /\ ~e.raised => PayloadFiles(e) = List(FencedCandidates(e.agent, e.response))

\* C5: whenever neither strict extraction nor code-block recovery yields
\* anything usable, so that the parser returns a synthesized placeholder
\* payload, the result carries a non-null parse error.
C5_PlaceholderCarriesParseError ==
    \A e \in Returned :
        (~StrictSucceeds(e.response) /\ FencedCandidates(e.agent, e.response) = <<>>)
            => HasParseError(e)

\* C6: a result carries a parse error only when every recovery path was
\* exercised: strict extraction was attempted and failed, and code-block
\* recovery was attempted as well before the terminal fallback.
C6_ParseErrorOnlyAfterEveryPath ==
    \A e \in Returned :
        HasParseError(e)
            => /\ "strict" \in e.steps
               /\ ~StrictSucceeds(e.response)
               /\ e.agent \in {"Developer", "Tester"} => "codeblock" \in e.steps

====
